---- MODULE Spec2Model ----
(***************************************************************************)
(* vite2next: the entry-point synthesis engine.                            *)
(*                                                                         *)
(* Strings are sequences of one-character strings, so that the string      *)
(* operations of the code (replace, startsWith, substring, split, join)    *)
(* are computed rather than assumed.  A path below the target directory is *)
(* a sequence of segments, each segment a string.                          *)
(***************************************************************************)
EXTENDS Integers, Sequences, FiniteSets, TLC

VARIABLES
  setup,    \* the project-setup descriptor passed to every step
  tree,     \* the source tree the locators read: files, entry-script imports, src/pages
  fs,       \* files of the target directory the emitter may write: path -> content
  dirs,     \* directories created so far by ensureDir
  pc,       \* position of the run: which step is called next
  run,      \* number of the current run over the same target directory
  log,      \* paths written by the current run, in write order
  prev,     \* fs as it was when the current run started
  legacy,   \* inputs of the index.html based createRootLayout: index.html, tsconfig.json
  record,   \* metadataContent and scripts as createRootLayout left them
  located,  \* whether the current run called findAppComponent, and what it returned
  ret       \* what the steps of the current run returned, in call order

vars == <<setup, tree, fs, dirs, pc, run, log, prev, legacy, record, located, ret>>

----------------------------------------------------------------------------
(* Bounds of the model *)

MaxRuns == 2
MaxTreeFiles == 2
MaxListing == 2
MaxMetas == 3
MaxScripts == 3

----------------------------------------------------------------------------
(* Strings *)

Upper == <<"A","B","C","D","E","F","G","H","I","J","K","L","M",
           "N","O","P","Q","R","S","T","U","V","W","X","Y","Z">>
Lower == <<"a","b","c","d","e","f","g","h","i","j","k","l","m",
           "n","o","p","q","r","s","t","u","v","w","x","y","z">>

ToLowerChar(c) ==
  IF \E i \in DOMAIN Upper : Upper[i] = c
  THEN Lower[CHOOSE i \in DOMAIN Upper : Upper[i] = c]
  ELSE c

\* String.prototype.toLowerCase
toLowerCase(s) == [i \in 1..Len(s) |-> ToLowerChar(s[i])]

\* String.prototype.startsWith
startsWith(s, p) == Len(s) >= Len(p) /\ SubSeq(s, 1, Len(p)) = p

\* String.prototype.endsWith
endsWith(s, p) == Len(s) >= Len(p) /\ SubSeq(s, Len(s) - Len(p) + 1, Len(s)) = p

\* String.prototype.substring(n): the string from 0-based index n on
substring(s, n) == SubSeq(s, n + 1, Len(s))

\* the separators are left as the platform gave them
ReplaceBackslashes_None(s) == s

\* s.replace(/\\/g, '/')
ReplaceBackslashes(s) == [i \in 1..Len(s) |-> IF s[i] = "\\" THEN "/" ELSE s[i]]

\* the strings the regular expression \.[jt]sx?$ can match
ScriptExts == { <<".","j","s">>, <<".","t","s">>, <<".","j","s","x">>, <<".","t","s","x">> }

\* s.replace(/\.[jt]sx?$/, ''): one trailing script extension is removed
StripScriptExt(s) ==
  IF \E e \in ScriptExts : endsWith(s, e)
  THEN LET e == CHOOSE x \in ScriptExts : endsWith(s, x)
       IN  SubSeq(s, 1, Len(s) - Len(e))
  ELSE s

\* position of the first character of s that is in seps, 0 when there is none
RECURSIVE FirstSep(_, _, _)
FirstSep(s, seps, i) ==
  IF i > Len(s) THEN 0
  ELSE IF s[i] \in seps THEN i
  ELSE FirstSep(s, seps, i + 1)

\* s.split on the separators seps
RECURSIVE SplitOn(_, _)
SplitOn(s, seps) ==
  LET k == FirstSep(s, seps, 1)
  IN  IF k = 0 THEN <<s>>
      ELSE <<SubSeq(s, 1, k - 1)>> \o SplitOn(SubSeq(s, k + 1, Len(s)), seps)

\* segs.join(sep)
RECURSIVE Join(_, _)
Join(segs, sep) ==
  IF segs = <<>> THEN <<>>
  ELSE IF Len(segs) = 1 THEN segs[1]
  ELSE segs[1] \o <<sep>> \o Join(Tail(segs), sep)

----------------------------------------------------------------------------
(* Paths (the path module of the platform) *)

Dot == <<".">>
DotDot == <<".",".">>

\* path.normalize on segments: '.' and empty segments vanish, '..' removes the
\* segment before it, and is kept when there is none to remove
RECURSIVE NormalizeFrom(_, _)
NormalizeFrom(done, rest) ==
  IF rest = <<>> THEN done
  ELSE LET s == Head(rest)
       IN  IF s = Dot \/ s = <<>> THEN NormalizeFrom(done, Tail(rest))
           ELSE IF s = DotDot /\ done # <<>> /\ done[Len(done)] # DotDot
                THEN NormalizeFrom(SubSeq(done, 1, Len(done) - 1), Tail(rest))
           ELSE NormalizeFrom(Append(done, s), Tail(rest))

Normalize(segs) == NormalizeFrom(<<>>, segs)

\* length of the longest common prefix of two segment lists
RECURSIVE CommonLen(_, _)
CommonLen(a, b) ==
  IF a = <<>> \/ b = <<>> \/ Head(a) # Head(b) THEN 0
  ELSE 1 + CommonLen(Tail(a), Tail(b))

\* path.relative(from, to), both below the target directory, as segments
Relative(from, to) ==
  LET k == CommonLen(from, to)
  IN  [i \in 1..(Len(from) - k) |-> DotDot] \o SubSeq(to, k + 1, Len(to))

\* path.basename(p) of a segment list
Basename(p) == p[Len(p)]

\* path.dirname(p) of a segment list
Dirname(p) == SubSeq(p, 1, Len(p) - 1)

\* position of the last '.' of a file name, 0 when there is none
RECURSIVE LastDot(_, _)
LastDot(s, i) ==
  IF i = 0 THEN 0
  ELSE IF s[i] = "." THEN i
  ELSE LastDot(s, i - 1)

\* path.extname(name): from the last '.' on; '' when there is no '.' or the only
\* '.' is the first character
Extname(name) ==
  LET k == LastDot(name, Len(name))
  IN  IF k <= 1 THEN <<>> ELSE SubSeq(name, k, Len(name))

\* path.basename(name, ext): the name without the suffix ext
BasenameNoExt(name, ext) ==
  IF ext # <<>> /\ endsWith(name, ext)
  THEN SubSeq(name, 1, Len(name) - Len(ext))
  ELSE name

----------------------------------------------------------------------------
(* Names the code spells out *)

S_src == <<"s","r","c">>
S_app == <<"a","p","p">>
S_App == <<"A","p","p">>
S_pages == <<"p","a","g","e","s">>
S_types == <<"t","y","p","e","s">>
S_slug == <<"[","[",".",".",".","s","l","u","g","]","]">>
S_globalDts == <<"g","l","o","b","a","l",".","d",".","t","s">>
S_client == <<".","/","c","l","i","e","n","t">>
S_srcSlash == <<"s","r","c","/">>
S_up == <<".",".","/">>
S_here == <<".","/">>
S_nodeModules == <<"n","o","d","e","_","m","o","d","u","l","e","s">>
S_git == <<".","g","i","t">>
S_dist == <<"d","i","s","t">>
S_next == <<".","n","e","x","t">>
S_main == <<"m","a","i","n">>
S_index == <<"i","n","d","e","x">>
S_components == <<"c","o","m","p","o","n","e","n","t","s">>
S_lib == <<"l","i","b">>
S_css == <<".","c","s","s">>

X_js == <<".","j","s">>
X_jsx == <<".","j","s","x">>
X_ts == <<".","t","s">>
X_tsx == <<".","t","s","x">>

\* null, undefined and '' are all falsy in the conditions that test a path
NoPath == <<>>

\* const extension = usesTypeScript ? 'tsx' : 'jsx'
Extension(usesTypeScript) == IF usesTypeScript THEN <<"t","s","x">> ELSE <<"j","s","x">>

\* `layout.${extension}`, `page.${extension}`, `client.${extension}`
LayoutName(extension) == <<"l","a","y","o","u","t",".">> \o extension
PageName(extension) == <<"p","a","g","e",".">> \o extension
ClientName(extension) == <<"c","l","i","e","n","t",".">> \o extension

\* appDir: the custom app directory below the target directory, or src/app
AppDir(st) ==
  IF st.customAppDir # NoPath
  THEN Normalize(SplitOn(st.customAppDir, {"/"}))
  ELSE <<S_src, S_app>>

SlugDir(st) == Append(AppDir(st), S_slug)
LayoutFile(st) == Append(AppDir(st), LayoutName(Extension(st.usesTypeScript)))
RootPageFile(st) == Append(AppDir(st), PageName(Extension(st.usesTypeScript)))
SlugPageFile(st) == Append(SlugDir(st), PageName(Extension(st.usesTypeScript)))
SlugClientFile(st) == Append(SlugDir(st), ClientName(Extension(st.usesTypeScript)))
TypesDir == <<S_src, S_types>>
GlobalDtsFile == Append(TypesDir, S_globalDts)
PagesDir == <<S_src, S_pages>>

\* fs.ensureDir(d): d and every directory above it exist afterwards
EnsureDir(ds, d) == ds \cup { SubSeq(d, 1, n) : n \in 1..Len(d) }

\* fs.writeFile for each write of ws, in order
RECURSIVE WriteAll(_, _)
WriteAll(f, ws) ==
  IF ws = <<>> THEN f
  ELSE LET w == Head(ws)
       IN  WriteAll([p \in DOMAIN f \cup {w.path} |-> IF p = w.path THEN w.content ELSE f[p]],
                    Tail(ws))

PathsOf(ws) == [i \in 1..Len(ws) |-> ws[i].path]

\* fs.existsSync(p) for a file
existsSync(f, p) == p \in DOMAIN f

----------------------------------------------------------------------------
(* Artifact locators *)

\* ignore: ['node_modules/**', '.git/**', 'dist/**', '.next/**', 'app/**']
IgnoredTop == { S_nodeModules, S_git, S_dist, S_next, S_app }
Ignored(p) == Len(p) >= 2 /\ p[1] \in IgnoredTop

\* glob.glob(`**/${pattern}`, { cwd, ignore }): the matching files
\* a file name against a pattern without wildcards; glob's nocase option defaults
\* to true on macOS and Windows and to false elsewhere
GlobMatches(t, name, pattern) ==
  IF t.nocase THEN toLowerCase(name) = toLowerCase(pattern) ELSE name = pattern

Glob(t, pattern) == { p \in t.files : GlobMatches(t, Basename(p), pattern) /\ ~Ignored(p) }

appFilePatterns ==
  << S_App \o X_jsx, S_App \o X_tsx, S_App \o X_js, S_App \o X_tsx,
     S_app \o X_jsx, S_app \o X_tsx, S_app \o X_js, S_app \o X_ts >>

mainFilePatterns ==
  << S_main \o X_jsx, S_main \o X_tsx, S_main \o X_js, S_main \o X_ts,
     S_index \o X_jsx, S_index \o X_tsx, S_index \o X_js, S_index \o X_ts >>

\* reading an entry script raises
Unreadable == <<"!">>

\* the path an entry script's import of the App component yields (lines 84-95)
ImportedApp(t, mainFile) ==
  LET appPath == t.imports[mainFile]
  IN  IF startsWith(appPath, S_here) \/ startsWith(appPath, S_up)
      THEN Join(Normalize(Dirname(mainFile) \o SplitOn(appPath, {"/"})), t.sep)
      ELSE appPath

\* the entry scripts tried from position i of mainFilePatterns on; files[0] is any
\* one of the matches of a pattern
RECURSIVE FromMainFiles(_, _)
FromMainFiles(t, i) ==
  IF i > Len(mainFilePatterns) THEN {NoPath}
  ELSE LET files == Glob(t, mainFilePatterns[i])
       IN  IF files = {} THEN FromMainFiles(t, i + 1)
           ELSE UNION { IF t.imports[m] # Unreadable /\ t.imports[m] # NoPath
                        THEN {ImportedApp(t, m)}
                        ELSE FromMainFiles(t, i + 1) : m \in files }

\* the candidate file names tried from the last of appFilePatterns to the first
RECURSIVE FromAppFiles_LastFirst(_, _)
FromAppFiles_LastFirst(t, i) ==
  IF i > Len(appFilePatterns) THEN FromMainFiles(t, 1)
  ELSE LET files == Glob(t, appFilePatterns[Len(appFilePatterns) + 1 - i])
       IN  IF files = {} THEN FromAppFiles_LastFirst(t, i + 1)
           ELSE { Join(p, t.sep) : p \in files }

\* the candidate file names tried from position i of appFilePatterns on
RECURSIVE FromAppFiles(_, _)
FromAppFiles(t, i) ==
  IF i > Len(appFilePatterns) THEN FromMainFiles(t, 1)
  ELSE LET files == Glob(t, appFilePatterns[i])
       IN  IF files = {} THEN FromAppFiles(t, i + 1)
           ELSE { Join(p, t.sep) : p \in files }

\* findAppComponent(targetDir): the values it can return, NoPath for null
findAppComponent(t) == FromAppFiles(t, 1)

GlobalCssNames ==
  { <<"i","n","d","e","x">> \o S_css, <<"g","l","o","b","a","l">> \o S_css,
    <<"g","l","o","b","a","l","s">> \o S_css, S_app \o S_css,
    <<"s","t","y","l","e">> \o S_css, <<"s","t","y","l","e","s">> \o S_css }

\* findGlobalCss(targetDir): the files it can return as segments, <<>> for null
findGlobalCss(t) ==
  LET globalCssFiles == { p \in t.files : /\ endsWith(IF t.nocase THEN toLowerCase(Basename(p))
                                                       ELSE Basename(p), S_css)
                                          /\ ~Ignored(p)
                                          /\ toLowerCase(Basename(p)) \in GlobalCssNames }
  IN  IF globalCssFiles # {} THEN globalCssFiles ELSE { <<>> }

----------------------------------------------------------------------------
(* Root layout (CSS-framework templates) *)

\* cssImportPath of createRootLayout: the import path of the global stylesheet
\* from the app directory, NoPath when no stylesheet was found
CssImportPath(st, t, globalCssPath) ==
  IF globalCssPath = <<>> THEN NoPath
  ELSE LET rel == ReplaceBackslashes(Join(Relative(AppDir(st), globalCssPath), t.sep))
       IN  IF ~startsWith(rel, S_here) /\ ~startsWith(rel, S_up) THEN S_here \o rel ELSE rel

S_globalsCss == <<".","/","g","l","o","b","a","l","s",".","c","s","s">>

\* a layout file: the template function that produced it, its style import, whether it
\* carries the metadata type definition, its 'use client' directive, the modules it
\* imports and what its <body> holds around {children}
createBasicLayout(cssImportPath, usesTypeScript) ==
  [kind |-> "layout", template |-> "basic", styleImport |-> cssImportPath,
   typeDef |-> usesTypeScript, useClient |-> FALSE, imports |-> {},
   body |-> IF cssImportPath # NoPath THEN "children" ELSE "app-container"]

createTailwindLayout(cssImportPath, usesTypeScript) ==
  [kind |-> "layout", template |-> "tailwind",
   styleImport |-> IF cssImportPath # NoPath THEN cssImportPath ELSE S_globalsCss,
   typeDef |-> usesTypeScript, useClient |-> FALSE, imports |-> {},
   body |-> "min-h-screen bg-background"]

createStyledComponentsLayout(usesTypeScript) ==
  [kind |-> "layout", template |-> "styled-components", styleImport |-> NoPath,
   typeDef |-> usesTypeScript, useClient |-> TRUE,
   imports |-> {"next/navigation", "../lib/styled-components-registry"},
   body |-> "styledComponentsRegistry.styles"]

createEmotionLayout(usesTypeScript) ==
  [kind |-> "layout", template |-> "emotion", styleImport |-> NoPath,
   typeDef |-> usesTypeScript, useClient |-> TRUE,
   imports |-> {"@emotion/react", "../lib/emotion-cache"},
   body |-> "CacheProvider"]

createMuiLayout(usesTypeScript) ==
  [kind |-> "layout", template |-> "mui", styleImport |-> NoPath,
   typeDef |-> usesTypeScript, useClient |-> TRUE,
   imports |-> {"@mui/material/styles", "@mui/material/CssBaseline", "../lib/mui-theme"},
   body |-> "ThemeProvider"]

createChakraLayout(usesTypeScript) ==
  [kind |-> "layout", template |-> "chakra", styleImport |-> NoPath,
   typeDef |-> usesTypeScript, useClient |-> TRUE,
   imports |-> {"@chakra-ui/react"},
   body |-> "ChakraProvider"]

\* the selection with the emotion branch calling the styled-components template
LayoutContent_EmotionAsStyled(st, cssImportPath) ==
  IF st.cssFramework = "tailwind" THEN createTailwindLayout(cssImportPath, st.usesTypeScript)
  ELSE IF st.cssFramework = "styled-components" THEN createStyledComponentsLayout(st.usesTypeScript)
  ELSE IF st.cssFramework = "emotion" THEN createStyledComponentsLayout(st.usesTypeScript)
  ELSE IF st.cssFramework = "mui" THEN createMuiLayout(st.usesTypeScript)
  ELSE IF st.cssFramework = "chakra" THEN createChakraLayout(st.usesTypeScript)
  ELSE createBasicLayout(cssImportPath, st.usesTypeScript)

LayoutContent(st, cssImportPath) ==
  IF st.cssFramework = "tailwind" THEN createTailwindLayout(cssImportPath, st.usesTypeScript)
  ELSE IF st.cssFramework = "styled-components" THEN createStyledComponentsLayout(st.usesTypeScript)
  ELSE IF st.cssFramework = "emotion" THEN createEmotionLayout(st.usesTypeScript)
  ELSE IF st.cssFramework = "mui" THEN createMuiLayout(st.usesTypeScript)
  ELSE IF st.cssFramework = "chakra" THEN createChakraLayout(st.usesTypeScript)
  ELSE createBasicLayout(cssImportPath, st.usesTypeScript)

\* createTypeDeclarations without the existence check of line 324
createTypeDeclarations_Always(f) ==
  << [path |-> GlobalDtsFile, content |-> [kind |-> "globalDts"]] >>

\* the write createTypeDeclarations performs: global.d.ts unless it exists
createTypeDeclarations(f) ==
  IF ~existsSync(f, GlobalDtsFile)
  THEN << [path |-> GlobalDtsFile, content |-> [kind |-> "globalDts"]] >>
  ELSE << >>

\* the writes of createRootLayout, in order
RootLayoutWrites(st, t, f, globalCssPath) ==
  IF existsSync(f, LayoutFile(st)) THEN << >>
  ELSE << [path |-> LayoutFile(st),
           content |-> LayoutContent(st, CssImportPath(st, t, globalCssPath))] >>
       \o (IF st.usesTypeScript THEN createTypeDeclarations(f) ELSE << >>)

\* the directories createRootLayout ensures
RootLayoutDirs(st, f, ds) ==
  LET base == EnsureDir(EnsureDir(ds, <<S_src>>), AppDir(st))
  IN  IF ~existsSync(f, LayoutFile(st)) /\ st.usesTypeScript
      THEN EnsureDir(base, TypesDir)
      ELSE base

createRootLayout ==
  /\ pc = "layout"
  /\ \E globalCssPath \in findGlobalCss(tree) :
       LET ws == RootLayoutWrites(setup, tree, fs, globalCssPath)
       IN  /\ fs' = WriteAll(fs, ws)
           /\ log' = log \o PathsOf(ws)
  /\ dirs' = RootLayoutDirs(setup, fs, dirs)
  /\ ret' = Append(ret, TRUE)
  /\ pc' = "entry"
  /\ UNCHANGED <<setup, tree, run, prev, legacy, record, located>>

----------------------------------------------------------------------------
(* Entrypoint: page and client-boundary files *)

S_upup == <<".",".","/",".",".","/">>

\* the import path createCatchAllPage derives from the located component (lines 145-173)
CatchAllImport(found) ==
  IF found = NoPath THEN S_App
  ELSE LET appPath == ReplaceBackslashes(found)
           pathWithoutExt == StripScriptExt(appPath)
       IN  IF \/ pathWithoutExt = S_srcSlash \o S_App
              \/ pathWithoutExt = S_srcSlash \o S_app
              \/ startsWith(pathWithoutExt, S_srcSlash \o S_App \o <<"/">>)
              \/ startsWith(pathWithoutExt, S_srcSlash \o S_app \o <<"/">>)
           THEN S_upup \o substring(pathWithoutExt, 4)
           ELSE IF startsWith(pathWithoutExt, S_srcSlash)
           THEN S_upup \o substring(pathWithoutExt, 4)
           ELSE S_upup \o pathWithoutExt

\* the import path createDirectPage derives from the located component (lines 237-254)
DirectImport(found) ==
  LET appComponentPath == ReplaceBackslashes(found)
      pathWithoutExt == StripScriptExt(appComponentPath)
  IN  IF \/ pathWithoutExt = S_srcSlash \o S_App
         \/ pathWithoutExt = S_srcSlash \o S_app
         \/ startsWith(pathWithoutExt, S_srcSlash \o S_App \o <<"/">>)
         \/ startsWith(pathWithoutExt, S_srcSlash \o S_app \o <<"/">>)
      THEN S_up \o substring(pathWithoutExt, 4)
      ELSE IF startsWith(pathWithoutExt, S_srcSlash)
      THEN S_up \o substring(pathWithoutExt, 4)
      ELSE S_up \o pathWithoutExt

\* { slug: [''] }, the default route
RootSlug == [slug |-> << <<>> >>]

\* the extensions of /\.(jsx|tsx|js|ts)$/
PageExts == { X_jsx, X_tsx, X_js, X_ts }

IndexFiles == { S_index \o X_tsx, S_index \o X_jsx, S_index \o X_js, S_index \o X_ts }

\* the filter of line 198
IsPageRoute(file) ==
  /\ \E e \in PageExts : endsWith(file, e)
  /\ ~startsWith(file, <<"_">>)
  /\ file \notin IndexFiles

\* the map of lines 199-203
PageRoute(file) == [slug |-> << toLowerCase(BasenameNoExt(file, Extname(file))) >>]

\* a readdir failure leaves no slug at all
StaticSlugs_UnreadableEmpty(pg) ==
  IF pg.exists /\ pg.readable
  THEN LET kept == SelectSeq(pg.listing, IsPageRoute)
           pageRoutes == [i \in 1..Len(kept) |-> PageRoute(kept[i])]
       IN  IF Len(pageRoutes) > 0 THEN pageRoutes \o <<RootSlug>> ELSE <<RootSlug>>
  ELSE IF pg.exists THEN << >>
  ELSE <<RootSlug>>

\* the page routes replace the default slug instead of preceding it
StaticSlugs_NoRoot(pg) ==
  IF pg.exists /\ pg.readable
  THEN LET kept == SelectSeq(pg.listing, IsPageRoute)
           pageRoutes == [i \in 1..Len(kept) |-> PageRoute(kept[i])]
       IN  IF Len(pageRoutes) > 0 THEN pageRoutes ELSE <<RootSlug>>
  ELSE <<RootSlug>>

\* slugs of createCatchAllPage (lines 190-213); pg is the state of src/pages
StaticSlugs(pg) ==
  IF pg.exists /\ pg.readable
  THEN LET kept == SelectSeq(pg.listing, IsPageRoute)
           pageRoutes == [i \in 1..Len(kept) |-> PageRoute(kept[i])]
       IN  IF Len(pageRoutes) > 0 THEN pageRoutes \o <<RootSlug>> ELSE <<RootSlug>>
  ELSE <<RootSlug>>

\* createCatchAllPage without its existence check
createCatchAllPage_NoSkip(st, t, f, found) ==
  << [path |-> SlugClientFile(st),
      content |-> [kind |-> "client", import |-> CatchAllImport(found)]],
     [path |-> SlugPageFile(st),
      content |-> [kind |-> "catchAllPage", import |-> S_client,
                   staticParams |-> StaticSlugs(t.pages)]] >>

\* the writes of createCatchAllPage, in order
createCatchAllPage(st, t, f, found) ==
  IF existsSync(f, SlugPageFile(st)) /\ existsSync(f, SlugClientFile(st)) THEN << >>
  ELSE << [path |-> SlugClientFile(st),
           content |-> [kind |-> "client", import |-> CatchAllImport(found)]],
          [path |-> SlugPageFile(st),
           content |-> [kind |-> "catchAllPage", import |-> S_client,
                        staticParams |-> StaticSlugs(t.pages)]] >>

\* the write of createDirectPage
createDirectPage(st, found) ==
  << [path |-> RootPageFile(st),
      content |-> [kind |-> "directPage", import |-> DirectImport(found)]] >>

\* a fallback page that imports the conventional component name
createFallbackPage_Import(st) ==
  << [path |-> RootPageFile(st),
      content |-> [kind |-> "directPage", import |-> S_up \o S_App]] >>

\* the write of createFallbackPage: a static page, no import
createFallbackPage(st) ==
  << [path |-> RootPageFile(st), content |-> [kind |-> "fallbackPage"]] >>

\* whether createEntrypoint gets as far as calling findAppComponent
CallsFindAppComponent(st, f) ==
  IF st.usesReactRouter
  THEN ~(existsSync(f, SlugPageFile(st)) /\ existsSync(f, SlugClientFile(st)))
  ELSE ~existsSync(f, RootPageFile(st))

\* createEntrypoint falling through from the catch-all branch into the root page branch
EntrypointWrites_FallThrough(st, t, f, found) ==
  (IF st.usesReactRouter THEN createCatchAllPage(st, t, f, found) ELSE << >>)
  \o (IF existsSync(f, RootPageFile(st)) THEN << >>
      ELSE IF found # NoPath THEN createDirectPage(st, found)
      ELSE createFallbackPage(st))

\* the writes of createEntrypoint, in order
EntrypointWrites(st, t, f, found) ==
  IF st.usesReactRouter THEN createCatchAllPage(st, t, f, found)
  ELSE IF existsSync(f, RootPageFile(st)) THEN << >>
  ELSE IF found # NoPath THEN createDirectPage(st, found)
  ELSE createFallbackPage(st)

\* the directories createEntrypoint ensures
EntrypointDirs(st, ds) ==
  LET base == EnsureDir(EnsureDir(ds, <<S_src>>), AppDir(st))
  IN  IF st.usesReactRouter THEN EnsureDir(base, SlugDir(st)) ELSE base

createEntrypoint ==
  /\ pc = "entry"
  /\ \E found \in findAppComponent(tree) :
       LET ws == EntrypointWrites(setup, tree, fs, found)
       IN  /\ fs' = WriteAll(fs, ws)
           /\ log' = log \o PathsOf(ws)
           /\ located' = [called |-> CallsFindAppComponent(setup, fs),
                          path |-> IF CallsFindAppComponent(setup, fs) THEN found ELSE NoPath]
  /\ dirs' = EntrypointDirs(setup, dirs)
  /\ ret' = Append(ret, TRUE)
  /\ pc' = "done"
  /\ UNCHANGED <<setup, tree, run, prev, legacy, record>>

\* the tool is invoked again on the same target directory with the same descriptor
Rerun ==
  /\ pc = "done"
  /\ run < MaxRuns
  /\ run' = run + 1
  /\ pc' = "layout"
  /\ log' = << >>
  /\ ret' = << >>
  /\ prev' = fs
  /\ located' = [called |-> FALSE, path |-> NoPath]
  /\ UNCHANGED <<setup, tree, fs, dirs, legacy, record>>

----------------------------------------------------------------------------
(* Initial states: descriptors, source trees and target directories *)

Range(q) == { q[i] : i \in DOMAIN q }

\* sequences of at most n distinct elements of S
DistinctSeqs(S, n) ==
  { q \in UNION { [1..k -> S] : k \in 0..n } :
      \A i, j \in DOMAIN q : i # j => q[i] # q[j] }

CssFrameworks == { "none", "tailwind", "styled-components", "emotion", "mui", "chakra" }

D_app == S_app
D_srcRoutes == S_src \o <<"/">> \o <<"r","o","u","t","e","s">>
D_webApp == <<"w","e","b">> \o <<"/">> \o S_app

F_srcApp == <<S_src, S_App \o X_tsx>>
F_rootApp == <<S_App \o X_jsx>>
F_componentsApp == <<S_src, S_components, S_App \o X_js>>
F_libApp == <<S_lib, S_app \o X_ts>>
F_srcAppDirApp == <<S_src, S_app, S_app \o X_jsx>>
F_srcMain == <<S_src, S_main \o X_tsx>>
F_rootMain == <<S_main \o X_tsx>>
F_srcIndexCss == <<S_src, S_index \o S_css>>
F_rootStylesCss == <<<<"S","t","y","l","e","s">> \o S_css>>

\* the import specifiers an entry script can hold: none, one that the regular
\* expression of line 83 captures, or the script cannot be read
ImportSpecs ==
  { NoPath, Unreadable,
    S_here \o S_App,
    S_here \o S_components \o <<"/">> \o S_App,
    S_up \o S_lib \o <<"/">> \o S_App,
    <<"@","/">> \o S_App }

N_About == <<"A","b","o","u","t">> \o X_tsx
N_about == <<"a","b","o","u","t">> \o X_jsx
N_Contact == <<"C","o","n","t","a","c","t">> \o X_js
N_index == S_index \o X_tsx
N_Index == <<"I","n","d","e","x">> \o X_tsx
N_underscore == <<"_","a","p","p">> \o X_js
N_readme == <<"r","e","a","d","m","e",".","m","d">>
N_dotted == <<"a",".","b">> \o X_ts
N_dotfile == X_js

PageFileNames ==
  { N_About, N_about, N_Contact, N_index, N_Index, N_underscore, N_readme, N_dotted,
    N_dotfile }

PagesAbsent == [exists |-> FALSE, readable |-> FALSE, listing |-> << >>]
PagesUnreadable == [exists |-> TRUE, readable |-> FALSE, listing |-> << >>]
PagesListed(names, n) ==
  { [exists |-> TRUE, readable |-> TRUE, listing |-> q] : q \in DistinctSeqs(names, n) }

MainIn(files) == { p \in files : toLowerCase(Basename(p)) \in Range(mainFilePatterns) }

\* the platforms the tool runs on: path.sep and the default of glob's nocase
Linux == [sep |-> "/", nocase |-> FALSE]
MacOS == [sep |-> "/", nocase |-> TRUE]
Windows == [sep |-> "\\", nocase |-> TRUE]

\* the source trees of at most n files of universe, on one of platforms
TreesOn(universe, n, platforms, specs, pagesStates) ==
  UNION { { [files |-> files, imports |-> i, sep |-> pf.sep, nocase |-> pf.nocase, pages |-> pg] :
            i \in [MainIn(files) -> specs], pf \in platforms, pg \in pagesStates } :
          files \in { x \in SUBSET universe : Cardinality(x) <= n } }

\* the source trees of at most n files of universe, on Linux for "/" and on Windows
\* for "\\"
Trees(universe, n, seps, specs, pagesStates) ==
  TreesOn(universe, n, { IF s = "/" THEN Linux ELSE Windows : s \in seps }, specs, pagesStates)

\* the files the emitter can write for descriptor st
Targets(st) ==
  { LayoutFile(st), RootPageFile(st), SlugPageFile(st), SlugClientFile(st), GlobalDtsFile }

UserContent == [kind |-> "user"]

AnyTargets(st) == SUBSET Targets(st)
NoTargets(st) == { {} }

InitWith(setups, trees, Present(_)) ==
  /\ setup \in setups
  /\ tree \in trees
  /\ \E present \in Present(setup) : fs = [p \in present |-> UserContent]
  /\ dirs = UNION { { SubSeq(p, 1, n) : n \in 1..(Len(p) - 1) } : p \in DOMAIN fs \cup tree.files }
            \cup (IF tree.pages.exists THEN { <<S_src>>, PagesDir } ELSE {})
  /\ pc = "layout"
  /\ run = 1
  /\ log = << >>
  /\ prev = fs
  /\ legacy = [used |-> FALSE]
  /\ record = << >>
  /\ located = [called |-> FALSE, path |-> NoPath]
  /\ ret = << >>

Init ==
  InitWith([usesTypeScript : BOOLEAN, usesReactRouter : BOOLEAN,
            customAppDir : {NoPath, D_app}, cssFramework : {"none", "tailwind"}],
           Trees({F_srcApp, F_rootApp, F_srcIndexCss}, MaxTreeFiles, {"/", "\\"}, {NoPath},
                 {PagesAbsent} \cup PagesListed({N_About}, 1)),
           AnyTargets)

Next == createRootLayout \/ createEntrypoint \/ Rerun

Spec == Init /\ [][Next]_vars

----------------------------------------------------------------------------
(* Emitter: idempotence, overwriting, topology *)

\* C1: a second run of createRootLayout and createEntrypoint over the same target
\* directory with the same descriptor writes no file, and every file keeps the
\* content the first run left.
C1_SecondRunWritesNothing == run >= 2 => (log = << >> /\ fs = prev)

C1_Witness ==
  /\ run = 2
  /\ pc = "done"
  /\ existsSync(fs, SlugClientFile(setup))
  /\ fs[SlugClientFile(setup)].kind = "client"
  /\ existsSync(fs, LayoutFile(setup))
  /\ fs[LayoutFile(setup)].kind = "layout"

\* C2: every target file that exists when the emitter starts has the same content
\* when the emitter has finished, whatever other target files exist or are missing.
C2_NoOverwrite ==
  (run = 1 /\ pc = "done") => \A p \in DOMAIN prev : existsSync(fs, p) /\ fs[p] = prev[p]

\* C6: with the router flag set createEntrypoint writes the catch-all page and the
\* client-boundary file and no root page; with the flag clear it writes the root
\* page only and creates no catch-all directory or file.
C6_TopologyByRouterFlag ==
  (run = 1 /\ pc = "done") =>
    IF setup.usesReactRouter
    THEN /\ RootPageFile(setup) \notin Range(log)
         /\ ~(existsSync(prev, SlugPageFile(setup)) /\ existsSync(prev, SlugClientFile(setup)))
              => /\ {SlugPageFile(setup), SlugClientFile(setup)} \subseteq Range(log)
                 /\ fs[SlugPageFile(setup)].kind = "catchAllPage"
                 /\ fs[SlugClientFile(setup)].kind = "client"
    ELSE /\ SlugPageFile(setup) \notin Range(log)
         /\ SlugClientFile(setup) \notin Range(log)
         /\ SlugDir(setup) \in dirs
              => (existsSync(prev, SlugPageFile(setup)) \/ existsSync(prev, SlugClientFile(setup)))
         /\ ~existsSync(prev, RootPageFile(setup))
              => /\ RootPageFile(setup) \in Range(log)
                 /\ fs[RootPageFile(setup)].kind \in {"directPage", "fallbackPage"}

C6_Witness ==
  /\ run = 1
  /\ pc = "done"
  /\ setup.usesReactRouter
  /\ ~existsSync(prev, RootPageFile(setup))
  /\ SlugClientFile(setup) \in Range(log)
  /\ SlugPageFile(setup) \in Range(log)

----------------------------------------------------------------------------
(* Import paths of the emitted files *)

\* every source tree of the file universe, on both platforms, no target present
InitPaths ==
  InitWith([usesTypeScript : BOOLEAN, usesReactRouter : BOOLEAN,
            customAppDir : {NoPath, D_app, D_srcRoutes, D_webApp}, cssFramework : {"none"}],
           Trees({F_srcApp, F_rootApp, F_componentsApp, F_libApp, F_srcAppDirApp,
                  F_srcMain, F_rootMain},
                 MaxTreeFiles, {"/", "\\"}, ImportSpecs, {PagesAbsent}),
           NoTargets)

SpecPaths == InitPaths /\ [][Next]_vars

\* the file into which createEntrypoint writes the import of the component
ImportingFile == IF setup.usesReactRouter THEN SlugClientFile(setup) ELSE RootPageFile(setup)

\* the first run has located a component and written its import
ComponentImported ==
  /\ run = 1
  /\ pc = "done"
  /\ located.called
  /\ located.path # NoPath

\* C3: the import path written for a located component starts with './' or '../',
\* contains no backslash and does not end in a script-file extension.
C3_ImportPathSyntax ==
  ComponentImported =>
    LET imp == fs[ImportingFile].import
    IN  /\ startsWith(imp, <<".","/">>) \/ startsWith(imp, <<".",".","/">>)
        /\ \A i \in DOMAIN imp : imp[i] # "\\"
        /\ \A e \in { <<".","j","s">>, <<".","j","s","x">>, <<".","t","s">>, <<".","t","s","x">> } :
             ~endsWith(imp, e)

C3_Witness ==
  /\ ComponentImported
  /\ \E i \in DOMAIN located.path : located.path[i] = "\\"
  /\ Len(SplitOn(located.path, {"\\"})) >= 3
  /\ fs[ImportingFile].kind = "directPage"

\* the segments of a located path, either separator style, extension stripped
Denoted(P) == Normalize(SplitOn(StripScriptExt(P), {"/", "\\"}))

\* C4: the import path written for a located component at P, resolved against the
\* directory of the emitted file, denotes P with its extension stripped.
C4_ImportPathDenotesComponent ==
  ComponentImported =>
    Normalize(Dirname(ImportingFile) \o SplitOn(fs[ImportingFile].import, {"/"}))
      = Denoted(located.path)

----------------------------------------------------------------------------
(* Static slugs of the catch-all page *)

\* every state of src/pages: absent, unreadable, or any listing of the file names
InitSlugs ==
  InitWith([usesTypeScript : BOOLEAN, usesReactRouter : BOOLEAN,
            customAppDir : {NoPath}, cssFramework : {"none"}],
           Trees({F_srcApp}, MaxTreeFiles, {"/"}, {NoPath},
                 {PagesAbsent, PagesUnreadable} \cup PagesListed(PageFileNames, MaxListing)),
           NoTargets)

SpecSlugs == InitSlugs /\ [][Next]_vars

\* the positions of the listing that hold a sibling page: a script file whose name
\* does not begin with '_' and is not an index file
SiblingPositions ==
  IF tree.pages.exists /\ tree.pages.readable
  THEN { k \in DOMAIN tree.pages.listing :
           LET f == tree.pages.listing[k]
               d == LastDot(f, Len(f))
           IN  /\ d > 0
               /\ SubSeq(f, d + 1, Len(f)) \in { <<"j","s">>, <<"j","s","x">>, <<"t","s">>, <<"t","s","x">> }
               /\ f[1] # "_"
               /\ SubSeq(f, 1, d - 1) # <<"i","n","d","e","x">> }
  ELSE {}

\* the i-th sibling position in listing order
SiblingAt(i) ==
  CHOOSE k \in SiblingPositions : Cardinality({ j \in SiblingPositions : j < k }) = i - 1

\* the slug of the sibling page at position k: its name without extension, lower-cased
\* (a name that begins with its only '.' has no extension)
SiblingSlug(k) ==
  LET f == tree.pages.listing[k]
      d == LastDot(f, Len(f))
  IN  [i \in 1..(IF d > 1 THEN d - 1 ELSE Len(f)) |-> ToLowerChar(f[i])]

CatchAllWritten ==
  /\ run = 1
  /\ pc = "done"
  /\ setup.usesReactRouter
  /\ SlugPageFile(setup) \in Range(log)

\* C7: staticSlugs holds the root-path entry exactly once, as its last element,
\* preceded by the slugs of the sibling pages in directory-listing order.
C7_RootSlugLast ==
  CatchAllWritten =>
    LET slugs == fs[SlugPageFile(setup)].staticParams
        n == Len(slugs)
    IN  /\ n >= 1
        /\ slugs[n] = [slug |-> << <<>> >>]
        /\ Cardinality({ i \in 1..n : slugs[i] = [slug |-> << <<>> >>] }) = 1
        /\ n - 1 = Cardinality(SiblingPositions)
        /\ \A i \in 1..(n - 1) : slugs[i] = [slug |-> << SiblingSlug(SiblingAt(i)) >>]

C7_Witness ==
  /\ CatchAllWritten
  /\ Len(fs[SlugPageFile(setup)].staticParams) = 3
  /\ fs[SlugPageFile(setup)].staticParams[1] # fs[SlugPageFile(setup)].staticParams[2]

----------------------------------------------------------------------------
(* Root layout from index.html: metadata extraction *)

S_layoutJs == <<"l","a","y","o","u","t",".","j","s">>
S_viewport == <<"v","i","e","w","p","o","r","t">>
S_description == <<"d","e","s","c","r","i","p","t","i","o","n">>
S_author == <<"a","u","t","h","o","r">>
S_title == <<"t","i","t","l","e">>
S_openGraph == <<"o","p","e","n","G","r","a","p","h">>
S_og == <<"o","g",":">>
S_image == <<"i","m","a","g","e">>
S_images == <<"i","m","a","g","e","s">>
S_MyApp == <<"M","y"," ","A","p","p">>
S_MyDescription == <<"M","y"," ","a","p","p","l","i","c","a","t","i","o","n"," ",
                     "d","e","s","c","r","i","p","t","i","o","n">>

\* s.replace(/'/g, "\\'")
RECURSIVE Escape(_)
Escape(s) ==
  IF s = <<>> THEN <<>>
  ELSE (IF Head(s) = "'" THEN <<"\\", "'">> ELSE <<Head(s)>>) \o Escape(Tail(s))

\* the app directory and layout files of the index.html based createRootLayout
LegacyAppDir == <<S_app>>
LegacyLayoutTsx == <<S_app, LayoutName(<<"t","s","x">>)>>
LegacyLayoutJsx == <<S_app, LayoutName(<<"j","s","x">>)>>
LegacyLayoutJs == <<S_app, S_layoutJs>>

\* one line of metadataContent
Field(key, value) == [kind |-> "field", key |-> key, value |-> value, props |-> << >>]
Authors(value) == [kind |-> "authors", key |-> <<"a","u","t","h","o","r","s">>, value |-> value, props |-> << >>]
Quoted(key, value) == [kind |-> "quoted", key |-> key, value |-> value, props |-> << >>]
OpenGraph(props) == [kind |-> "openGraph", key |-> S_openGraph, value |-> << >>, props |-> props]

\* one property inside the text of the openGraph line
OgValue(key, value) == [key |-> key, list |-> FALSE, items |-> <<value>>]
OgImages(value) == [key |-> S_images, list |-> TRUE, items |-> <<value>>]

\* line.trim().startsWith('openGraph:')
IsOgLine(line) == line.kind = "openGraph" \/ (line.kind = "field" /\ line.key = S_openGraph)

\* metadataContent.findIndex(...), 0 for -1
RECURSIVE FindOgEntry(_, _)
FindOgEntry(mc, i) ==
  IF i > Len(mc) THEN 0
  ELSE IF IsOgLine(mc[i]) THEN i
  ELSE FindOgEntry(mc, i + 1)

\* currentOg.includes('images:')
IncludesImages(line) == \E i \in DOMAIN line.props : endsWith(line.props[i].key, S_images)

\* currentOg.replace(/(\s+openGraph:\s+\{)/, `$1\n    ...`): the property is put
\* right after the opening brace; a line without the brace is left as it is
InsertOgProp(line, prop) ==
  IF line.kind = "openGraph" THEN OpenGraph(<<prop>> \o line.props) ELSE line

\* the loop body for named metas, without the skip of line 80
ProcessMeta_NoSkip(mc, meta) ==
  IF meta.name # <<>> /\ meta.content # <<>>
  THEN IF meta.name = S_author
       THEN Append(mc, Authors(Escape(meta.content)))
       ELSE Append(mc, Field(meta.name, Escape(meta.content)))
  ELSE mc

\* the body of the loop over the meta elements (lines 74-130)
ProcessMeta(mc, meta) ==
  IF meta.charset # <<>> \/ meta.name = S_viewport \/ meta.name = S_description THEN mc
  ELSE IF meta.name # <<>> /\ meta.content # <<>>
  THEN IF meta.name = S_author
       THEN Append(mc, Authors(Escape(meta.content)))
       ELSE Append(mc, Field(meta.name, Escape(meta.content)))
  ELSE IF meta.property # <<>> /\ meta.content # <<>>
  THEN IF startsWith(meta.property, S_og)
       THEN LET ogEntry == FindOgEntry(mc, 1)
                ogProp == substring(meta.property, 3)
            IN  IF ogProp = S_image
                THEN IF ogEntry = 0
                     THEN Append(mc, OpenGraph(<< OgImages(Escape(meta.content)) >>))
                     ELSE IF ~IncludesImages(mc[ogEntry])
                          THEN [mc EXCEPT ![ogEntry] =
                                  InsertOgProp(mc[ogEntry], OgImages(Escape(meta.content)))]
                          ELSE mc
                ELSE IF ogEntry = 0
                     THEN Append(mc, OpenGraph(<< OgValue(ogProp, Escape(meta.content)) >>))
                     ELSE [mc EXCEPT ![ogEntry] =
                             InsertOgProp(mc[ogEntry], OgValue(ogProp, Escape(meta.content)))]
       ELSE Append(mc, Quoted(meta.property, Escape(meta.content)))
  ELSE mc

RECURSIVE ProcessMetas(_, _)
ProcessMetas(mc, metas) ==
  IF metas = <<>> THEN mc
  ELSE ProcessMetas(ProcessMeta(mc, Head(metas)), Tail(metas))

\* document.querySelector('title')?.textContent || 'My App'
TitleOf(doc) == IF doc.title.present /\ doc.title.text # <<>> THEN doc.title.text ELSE S_MyApp

\* document.querySelector('meta[name="description"]')?.getAttribute('content') || '...'
DescriptionOf(doc) ==
  LET ds == SelectSeq(doc.metas, LAMBDA m : m.name = S_description)
  IN  IF ds # <<>> /\ ds[1].content # <<>> THEN ds[1].content ELSE S_MyDescription

\* metadataContent after the loop (lines 58-130)
MetadataContent(doc) ==
  ProcessMetas(<< Field(S_title, Escape(TitleOf(doc))),
                  Field(S_description, Escape(DescriptionOf(doc))) >>,
               doc.metas)

\* scripts with each declaration put in front of the earlier ones
RECURSIVE Scripts_Reversed(_, _, _)
Scripts_Reversed(elems, ids, i) ==
  IF i > Len(elems) THEN << >>
  ELSE Scripts_Reversed(elems, ids, i + 1)
       \o (IF elems[i].src # <<>> THEN << [src |-> elems[i].src, id |-> "", body |-> << >>] >>
           ELSE IF elems[i].body # <<>>
                THEN << [src |-> << >>, id |-> ids[i], body |-> elems[i].body] >>
                ELSE << >>)

\* scripts after the loop (lines 132-145); ids[i] is the identifier generated for
\* the i-th script element should it be an inline one
RECURSIVE Scripts(_, _, _)
Scripts(elems, ids, i) ==
  IF i > Len(elems) THEN << >>
  ELSE (IF elems[i].src # <<>> THEN << [src |-> elems[i].src, id |-> "", body |-> << >>] >>
        ELSE IF elems[i].body # <<>>
             THEN << [src |-> << >>, id |-> ids[i], body |-> elems[i].body] >>
             ELSE << >>)
       \o Scripts(elems, ids, i + 1)

\* the identifiers Math.random().toString(36).substring(2, 9) can give, abridged
ScriptIds == { "id1", "id2" }

\* the layout built from index.html (lines 150-173)
HtmlLayout(usesTypeScript, metadataContent, scripts) ==
  [kind |-> "layout", template |-> "indexHtml",
   typed |-> usesTypeScript,
   metadata |-> IF usesTypeScript THEN metadataContent ELSE << >>,
   importsScript |-> Len(scripts) > 0,
   scripts |-> scripts]

\* defaultLayout (lines 28-48)
DefaultLayout(usesTypeScript) ==
  [kind |-> "layout", template |-> "default",
   typed |-> usesTypeScript,
   metadata |-> IF usesTypeScript
                THEN << Field(S_title, S_MyApp), Field(S_description, S_MyDescription) >>
                ELSE << >>,
   importsScript |-> FALSE,
   scripts |-> << >>]

\* whether the try block of lines 53-173 completes
ParsesIndexHtml(lg) == lg.indexHtml.status = "ok"

\* the catch block leaves layout as it was initialised, ''
LegacyLayout_NoDefaultInCatch(lg, ids) ==
  IF lg.indexHtml.status = "absent" THEN DefaultLayout(lg.tsconfig)
  ELSE IF ParsesIndexHtml(lg)
  THEN HtmlLayout(lg.tsconfig, MetadataContent(lg.indexHtml.doc),
                  Scripts(lg.indexHtml.doc.scripts, ids, 1))
  ELSE [kind |-> "layout", template |-> "empty", typed |-> lg.tsconfig,
        metadata |-> << >>, importsScript |-> FALSE, scripts |-> << >>]

\* layout as it stands at line 184
LegacyLayout(lg, ids) ==
  IF lg.indexHtml.status # "absent" /\ ParsesIndexHtml(lg)
  THEN HtmlLayout(lg.tsconfig, MetadataContent(lg.indexHtml.doc),
                  Scripts(lg.indexHtml.doc.scripts, ids, 1))
  ELSE DefaultLayout(lg.tsconfig)

\* the existence check of line 18
LegacyLayoutExists(f) ==
  existsSync(f, LegacyLayoutTsx) \/ existsSync(f, LegacyLayoutJsx) \/ existsSync(f, LegacyLayoutJs)

\* the write of the index.html based createRootLayout
LegacyLayoutWrites(lg, f, ids) ==
  IF LegacyLayoutExists(f) THEN << >>
  ELSE << [path |-> <<S_app, LayoutName(Extension(lg.tsconfig))>>,
           content |-> LegacyLayout(lg, ids)] >>

\* createRootLayout(targetDir) of the index.html based version
createRootLayout_indexHtml ==
  /\ pc = "legacyLayout"
  /\ \E ids \in [DOMAIN legacy.indexHtml.doc.scripts -> ScriptIds] :
       LET ws == LegacyLayoutWrites(legacy, fs, ids)
       IN  /\ fs' = WriteAll(fs, ws)
           /\ log' = log \o PathsOf(ws)
           /\ record' = IF ws # << >> /\ ws[1].content.template = "indexHtml"
                        THEN << [metadataContent |-> MetadataContent(legacy.indexHtml.doc),
                                 scripts |-> Scripts(legacy.indexHtml.doc.scripts, ids, 1)] >>
                        ELSE << >>
  /\ dirs' = EnsureDir(dirs, LegacyAppDir)
  /\ ret' = Append(ret, TRUE)
  /\ pc' = "done"
  /\ UNCHANGED <<setup, tree, run, prev, legacy, located>>

----------------------------------------------------------------------------
(* Initial states of the index.html based layout step *)

Meta(name, property, content, charset) ==
  [name |-> name, property |-> property, content |-> content, charset |-> charset]

T_a == <<"a">>
T_b == <<"b">>
T_quote == <<"O","'","B">>

M_ogImageA == Meta(<<>>, S_og \o S_image, T_a, <<>>)
M_ogImageB == Meta(<<>>, S_og \o S_image, T_b, <<>>)
M_ogTitle == Meta(<<>>, S_og \o S_title, T_quote, <<>>)
M_title == Meta(S_title, <<>>, T_a, <<>>)
M_description == Meta(S_description, <<>>, T_b, <<>>)
M_keywords == Meta(<<"k","e","y","w","o","r","d","s">>, <<>>, T_a, <<>>)
M_charset == Meta(<<>>, <<>>, <<>>, <<"u","t","f","-","8">>)
M_viewport == Meta(S_viewport, <<>>, T_a, <<>>)

HeadMetas ==
  { M_ogImageA, M_ogImageB, M_ogTitle, M_title, M_description, M_keywords, M_charset, M_viewport }

Titles ==
  { [present |-> FALSE, text |-> << >>], [present |-> TRUE, text |-> << >>],
    [present |-> TRUE, text |-> T_a], [present |-> TRUE, text |-> T_quote] }

ScriptElems == { << >>, << [src |-> << >>, body |-> T_a] >> }

EmptyDoc == [title |-> [present |-> FALSE, text |-> << >>], metas |-> << >>, scripts |-> << >>]

Docs ==
  [title : Titles,
   metas : UNION { [1..k -> HeadMetas] : k \in 0..MaxMetas },
   scripts : ScriptElems]

\* index.html: absent, unreadable, rejected by the parser, or parsed into a document
IndexHtmls ==
  { [status |-> st, doc |-> EmptyDoc] : st \in {"absent", "readError", "parseError"} }
  \cup { [status |-> "ok", doc |-> d] : d \in Docs }

InitHtml ==
  /\ legacy \in [used : {TRUE}, tsconfig : BOOLEAN, indexHtml : IndexHtmls]
  /\ fs \in { << >>, [p \in {LegacyLayoutJs} |-> UserContent] }
  /\ dirs = IF fs = << >> THEN {} ELSE {LegacyAppDir}
  /\ setup = [usesTypeScript |-> legacy.tsconfig, usesReactRouter |-> FALSE,
              customAppDir |-> NoPath, cssFramework |-> "none"]
  /\ tree = [files |-> {}, imports |-> << >>, sep |-> "/", nocase |-> FALSE,
             pages |-> PagesAbsent]
  /\ pc = "legacyLayout"
  /\ run = 1
  /\ log = << >>
  /\ prev = fs
  /\ record = << >>
  /\ located = [called |-> FALSE, path |-> NoPath]
  /\ ret = << >>

NextHtml == createRootLayout_indexHtml

SpecHtml == InitHtml /\ [][NextHtml]_vars

----------------------------------------------------------------------------
(* Metadata extraction *)

\* index.html was parsed and the layout was written from it
Extracted == pc = "done" /\ record # << >>

Count(q, Test(_)) == Cardinality({ i \in DOMAIN q : Test(q[i]) })

\* the contents of the og:image elements of the head, in document order
OgImageContents ==
  LET imgs == SelectSeq(legacy.indexHtml.doc.metas,
                        LAMBDA m : m.property = <<"o","g",":","i","m","a","g","e">>
                                   /\ m.content # << >> /\ m.name = << >> /\ m.charset = << >>)
  IN  [i \in 1..Len(imgs) |-> Escape(imgs[i].content)]

\* C8: a head with n >= 1 og:image elements yields one openGraph map with one
\* images list that holds all n contents in document order.
C8_AllOgImagesInOneList ==
  (Extracted /\ Len(OgImageContents) >= 1) =>
    LET mc == record[1].metadataContent
        og == SelectSeq(mc, LAMBDA line : line.kind = "openGraph")
    IN  /\ Len(og) = 1
        /\ Count(og[1].props, LAMBDA p : p.list) = 1
        /\ \A i \in DOMAIN og[1].props :
             og[1].props[i].list => og[1].props[i].items = OgImageContents

\* C9: title is the text of <title> when present and non-empty, else the default;
\* description is the content of meta[name=description] when present, else the
\* default; each of the two fields occurs exactly once in the record.
C9_TitleAndDescriptionOnce ==
  Extracted =>
    LET mc == record[1].metadataContent
        doc == legacy.indexHtml.doc
        title == IF doc.title.present /\ doc.title.text # << >>
                 THEN doc.title.text ELSE <<"M","y"," ","A","p","p">>
        titles == SelectSeq(mc, LAMBDA line : line.key = <<"t","i","t","l","e">>)
        descs == SelectSeq(mc, LAMBDA line : line.key = S_description)
    IN  /\ Len(titles) = 1
        /\ titles[1].value = Escape(title)
        /\ Len(descs) = 1
        /\ IF \E i \in DOMAIN doc.metas : doc.metas[i].name = S_description
           THEN \E i \in DOMAIN doc.metas : /\ doc.metas[i].name = S_description
                                            /\ descs[1].value = Escape(doc.metas[i].content)
           ELSE descs[1].value = S_MyDescription

\* the run reached the handling of index.html: no layout file was there to skip for
LayoutAttempted == pc = "done" /\ legacy.used /\ ~LegacyLayoutExists(prev)

\* C10: when index.html is absent, or reading or parsing it raises, createRootLayout
\* writes the layout file with exactly the default layout and returns true.
C10_DefaultLayoutWithoutIndexHtml ==
  (LayoutAttempted /\ legacy.indexHtml.status \in {"absent", "readError", "parseError"}) =>
    LET file == <<S_app, IF legacy.tsconfig THEN <<"l","a","y","o","u","t",".","t","s","x">>
                                            ELSE <<"l","a","y","o","u","t",".","j","s","x">> >>
    IN  /\ log = <<file>>
        /\ fs[file].template = "default"
        /\ fs[file].scripts = << >>
        /\ ~fs[file].importsScript
        /\ fs[file].metadata = IF legacy.tsconfig
                               THEN << Field(S_title, S_MyApp), Field(S_description, S_MyDescription) >>
                               ELSE << >>
        /\ ret = <<TRUE>>

C10_Witness ==
  /\ LayoutAttempted
  /\ legacy.indexHtml.status = "parseError"
  /\ legacy.tsconfig
  /\ log # << >>

----------------------------------------------------------------------------
(* Layout template selection *)

InitLayout ==
  InitWith([usesTypeScript : BOOLEAN, usesReactRouter : BOOLEAN,
            customAppDir : {NoPath, D_app}, cssFramework : CssFrameworks],
           Trees({F_srcIndexCss, F_rootStylesCss}, MaxTreeFiles, {"/", "\\"}, {NoPath},
                 {PagesAbsent}),
           NoTargets)

SpecLayout == InitLayout /\ [][Next]_vars

\* the first run has written the layout file
LayoutWritten == run = 1 /\ LayoutFile(setup) \in Range(log)

\* the text of a layout apart from its style import and type definition
Markup(c) == [useClient |-> c.useClient, imports |-> c.imports, body |-> c.body]

\* the import paths a layout can be given
CssImportPaths == { NoPath } \cup { CssImportPath(setup, tree, p) : p \in findGlobalCss(tree) }

\* C11: the layout createRootLayout writes comes from the one template of the
\* descriptor's cssFramework: whatever the other inputs (TypeScript flag, css import
\* path), the same framework value selects the same template, and each of the five
\* other framework values selects another template with another text.
C11_TemplateByFramework ==
  LayoutWritten =>
    LET c == fs[LayoutFile(setup)]
    IN  \A f \in CssFrameworks, ts \in BOOLEAN, css \in CssImportPaths :
          LET d == LayoutContent([setup EXCEPT !.cssFramework = f, !.usesTypeScript = ts], css)
          IN  /\ (d.template = c.template) <=> (f = setup.cssFramework)
              /\ (f # setup.cssFramework) => Markup(d) # Markup(c)

C11_Witness ==
  /\ LayoutWritten
  /\ setup.cssFramework = "emotion"
  /\ fs[LayoutFile(setup)].template = "emotion"
  /\ findGlobalCss(tree) # { NoPath }

----------------------------------------------------------------------------
(* Interrupted runs *)

\* createRootLayout ends (a rejected write, a killed process) after the first k of
\* its writes; the run is over
InterruptedRootLayout ==
  /\ pc = "layout"
  /\ \E globalCssPath \in findGlobalCss(tree) :
       LET ws == RootLayoutWrites(setup, tree, fs, globalCssPath)
       IN  \E k \in 0..Len(ws) :
             /\ fs' = WriteAll(fs, SubSeq(ws, 1, k))
             /\ log' = log \o PathsOf(SubSeq(ws, 1, k))
  /\ dirs' = RootLayoutDirs(setup, fs, dirs)
  /\ pc' = "interrupted"
  /\ UNCHANGED <<setup, tree, run, prev, legacy, record, located, ret>>

\* createEntrypoint ends after the first k of its writes; the run is over
InterruptedEntrypoint ==
  /\ pc = "entry"
  /\ \E found \in findAppComponent(tree) :
       LET ws == EntrypointWrites(setup, tree, fs, found)
       IN  \E k \in 1..Len(ws) :
             /\ fs' = WriteAll(fs, SubSeq(ws, 1, k))
             /\ log' = log \o PathsOf(SubSeq(ws, 1, k))
  /\ dirs' = EntrypointDirs(setup, dirs)
  /\ pc' = "interrupted"
  /\ UNCHANGED <<setup, tree, run, prev, legacy, record, located, ret>>

\* the tool is invoked again after an interrupted run; prev keeps the files the
\* first run started from
RerunAfterInterrupt ==
  /\ pc = "interrupted"
  /\ run < MaxRuns
  /\ run' = run + 1
  /\ pc' = "layout"
  /\ log' = << >>
  /\ ret' = << >>
  /\ located' = [called |-> FALSE, path |-> NoPath]
  /\ UNCHANGED <<setup, tree, fs, dirs, prev, legacy, record>>

InitInterrupt ==
  InitWith([usesTypeScript : BOOLEAN, usesReactRouter : BOOLEAN,
            customAppDir : {NoPath, D_app}, cssFramework : {"none", "tailwind"}],
           Trees({F_srcApp, F_srcIndexCss}, MaxTreeFiles, {"/", "\\"}, {NoPath}, {PagesAbsent}),
           NoTargets)

NextInterrupt ==
  \/ createRootLayout
  \/ createEntrypoint
  \/ InterruptedRootLayout
  \/ InterruptedEntrypoint
  \/ RerunAfterInterrupt

SpecInterrupt == InitInterrupt /\ [][NextInterrupt]_vars

\* the files one uninterrupted run leaves when started on files f
Uninterrupted(f) ==
  { LET f1 == WriteAll(f, RootLayoutWrites(setup, tree, f, globalCssPath))
    IN  WriteAll(f1, EntrypointWrites(setup, tree, f1, found)) :
      globalCssPath \in findGlobalCss(tree), found \in findAppComponent(tree) }

\* C12: a complete run that follows an interrupted run ends with the files, and the
\* contents, that one uninterrupted run from the same start leaves.
C12_RerunAfterInterruptCompletes ==
  (run >= 2 /\ pc = "done") => fs \in Uninterrupted(prev)

----------------------------------------------------------------------------
(* Orchestration: the order of cleanup and layout creation *)

F_indexHtml == <<<<"i","n","d","e","x",".","h","t","m","l">>>>

\* filesToRemove of cleanupViteFiles, as paths below the target directory
filesToRemove ==
  { <<<<"m","a","i","n",".","t","s","x">>>>,
    <<<<"m","a","i","n",".","j","s","x">>>>,
    <<<<"m","a","i","n",".","j","s">>>>,
    <<<<"i","n","d","e","x",".","h","t","m","l">>>>,
    <<<<"v","i","t","e","-","e","n","v",".","d",".","t","s">>>>,
    <<<<"s","r","c">>, <<"v","i","t","e","-","e","n","v",".","d",".","t","s">>>>,
    <<<<"t","s","c","o","n","f","i","g",".","n","o","d","e",".","j","s","o","n">>>>,
    <<<<"t","s","c","o","n","f","i","g",".","a","p","p",".","j","s","o","n">>>>,
    <<<<"v","i","t","e",".","c","o","n","f","i","g",".","j","s">>>>,
    <<<<"v","i","t","e",".","c","o","n","f","i","g",".","t","s">>>>,
    <<<<"v","i","t","e",".","a","p","p",".","c","o","n","f","i","g",".","t","s">>>>,
    <<<<"v","i","t","e",".","a","p","p",".","c","o","n","f","i","g",".","j","s">>>>,
    <<<<"v","i","t","e",".","a","p","p",".","c","o","n","f","i","g",".","t","s","x">>>>,
    <<<<"v","i","t","e",".","a","p","p",".","c","o","n","f","i","g",".","j","s","x">>>>,
    <<<<"s","r","c">>, <<"m","a","i","n",".","t","s","x">>>>,
    <<<<"A","p","p",".","c","s","s">>>>,
    <<<<"s","r","c">>, <<"A","p","p",".","c","s","s">>>>,
    <<<<"s","r","c">>, <<"a","p","p">>, <<"A","p","p",".","c","s","s">>>>,
    <<<<"s","r","c">>, <<"s","t","y","l","e","s">>, <<"A","p","p",".","c","s","s">>>> }

\* filesToRemove of the first version of cleanupViteFiles
filesToRemove_v1 ==
  { <<<<"m","a","i","n",".","t","s","x">>>>,
    <<<<"m","a","i","n",".","j","s","x">>>>,
    <<<<"m","a","i","n",".","j","s">>>>,
    <<<<"i","n","d","e","x",".","h","t","m","l">>>>,
    <<<<"v","i","t","e","-","e","n","v",".","d",".","t","s">>>>,
    <<<<"s","r","c">>, <<"v","i","t","e","-","e","n","v",".","d",".","t","s">>>>,
    <<<<"t","s","c","o","n","f","i","g",".","n","o","d","e",".","j","s","o","n">>>>,
    <<<<"t","s","c","o","n","f","i","g",".","a","p","p",".","j","s","o","n">>>>,
    <<<<"v","i","t","e",".","c","o","n","f","i","g",".","t","s">>>>,
    <<<<"v","i","t","e",".","c","o","n","f","i","g",".","j","s">>>>,
    <<<<"v","i","t","e",".","a","p","p",".","c","o","n","f","i","g",".","t","s">>>>,
    <<<<"v","i","t","e",".","a","p","p",".","c","o","n","f","i","g",".","j","s">>>>,
    <<<<"v","i","t","e",".","a","p","p",".","c","o","n","f","i","g",".","t","s","x">>>>,
    <<<<"v","i","t","e",".","a","p","p",".","c","o","n","f","i","g",".","j","s","x">>>> }

\* fs.remove of index.html when it is listed
RemoveIndexHtml(lg, removed) ==
  IF F_indexHtml \in removed
  THEN [lg EXCEPT !.indexHtml = [status |-> "absent", doc |-> EmptyDoc]]
  ELSE lg

\* where fs.copy(rootAppDir, srcAppDir) puts a path of the root-level app directory
MovedToSrcApp(p) == IF Len(p) > 0 /\ p[1] = S_app THEN <<S_src>> \o p ELSE p

\* a root-level app directory exists
RootAppDirExists(f, ds) == <<S_app>> \in ds \/ \E p \in DOMAIN f : p[1] = S_app

\* the emitted files after the root-level app directory was copied into src/app
\* without overwriting and then removed
MoveRootAppDir(f) ==
  LET kept == { p \in DOMAIN f : p[1] # S_app }
      moved == { p \in DOMAIN f : p[1] = S_app /\ MovedToSrcApp(p) \notin kept }
  IN  [q \in kept \cup { MovedToSrcApp(p) : p \in moved } |->
         IF q \in kept THEN f[q] ELSE f[Tail(q)]]

\* cleanupViteFiles(targetDir): the target directory it leaves
cleanupViteFiles(lg, t, f, ds) ==
  LET hasRootApp == RootAppDirExists(f, ds)
  IN  [legacy |-> RemoveIndexHtml(lg, filesToRemove),
       tree |-> [t EXCEPT !.files = { p \in t.files : p \notin filesToRemove }],
       fs |-> IF hasRootApp THEN MoveRootAppDir(f) ELSE f,
       dirs |-> IF hasRootApp
                THEN { MovedToSrcApp(d) : d \in ds } \cup { <<S_src>>, <<S_src, S_app>> }
                ELSE ds]

\* cleanupViteFiles(targetDir) of the first version: files are removed only
cleanupViteFiles_v1(lg, t, f, ds) ==
  [legacy |-> RemoveIndexHtml(lg, filesToRemove_v1),
   tree |-> [t EXCEPT !.files = { p \in t.files : p \notin filesToRemove_v1 }],
   fs |-> f,
   dirs |-> ds]

\* the target directory as it is
NoCleanup(lg, t, f, ds) == [legacy |-> lg, tree |-> t, fs |-> f, dirs |-> ds]

\* step 1 of the CLI's runMigration: cleanup, then the layout of the CSS-framework
\* createRootLayout
runMigration_cleanup ==
  /\ pc = "cleanup"
  /\ legacy.orchestration = "runMigration"
  /\ LET c == cleanupViteFiles(legacy, tree, fs, dirs)
     IN  /\ legacy' = c.legacy
         /\ tree' = c.tree
         /\ fs' = c.fs
         /\ dirs' = c.dirs
         /\ prev' = c.fs
  /\ pc' = "layout"
  /\ UNCHANGED <<setup, run, log, record, located, ret>>

\* handleCleanup(targetDir, options.yes) of the first CLI: cleanup unless the user
\* declines at the prompt, then the index.html based createRootLayout
handleCleanup ==
  /\ pc = "cleanup"
  /\ legacy.orchestration = "runMigration_v1"
  /\ \E cleanup \in BOOLEAN :
       LET c == IF legacy.yes \/ cleanup
                THEN cleanupViteFiles_v1(legacy, tree, fs, dirs)
                ELSE NoCleanup(legacy, tree, fs, dirs)
       IN  /\ legacy' = c.legacy
           /\ tree' = c.tree
           /\ fs' = c.fs
           /\ dirs' = c.dirs
           /\ prev' = c.fs
  /\ pc' = "legacyLayout"
  /\ UNCHANGED <<setup, run, log, record, located, ret>>

\* step 9 of migrateToNext: cleanup after layout and entry page, unless skipCleanup
migrateToNext_cleanup ==
  /\ pc = "done"
  /\ legacy.orchestration = "migrateToNext"
  /\ LET c == IF ~legacy.skipCleanup
              THEN cleanupViteFiles_v1(legacy, tree, fs, dirs)
              ELSE NoCleanup(legacy, tree, fs, dirs)
     IN  /\ legacy' = c.legacy
         /\ tree' = c.tree
         /\ fs' = c.fs
         /\ dirs' = c.dirs
  /\ pc' = "cleaned"
  /\ UNCHANGED <<setup, run, log, prev, record, located, ret>>

Orchestrations == { "runMigration", "runMigration_v1", "migrateToNext" }

\* a run of one of the orchestrations; legacy.atStart keeps index.html as the run
\* found it
InitOrchestration ==
  /\ \E o \in Orchestrations, yes \in BOOLEAN, skipCleanup \in BOOLEAN, ts \in BOOLEAN,
        html \in { [status |-> "absent", doc |-> EmptyDoc], [status |-> "ok", doc |-> EmptyDoc],
                   [status |-> "ok", doc |-> [EmptyDoc EXCEPT !.title = [present |-> TRUE, text |-> T_a]]] } :
       legacy = [used |-> o # "runMigration", tsconfig |-> ts, indexHtml |-> html,
                 orchestration |-> o, yes |-> yes, skipCleanup |-> skipCleanup,
                 atStart |-> html]
  /\ setup \in [usesTypeScript : {legacy.tsconfig}, usesReactRouter : BOOLEAN,
                 customAppDir : {NoPath}, cssFramework : {"none"}]
  /\ tree \in Trees({F_srcApp, F_srcMain, F_rootMain}, MaxTreeFiles, {"/"}, {NoPath}, {PagesAbsent})
  /\ fs \in { << >>, [p \in {LegacyLayoutJs} |-> UserContent] }
  /\ dirs = UNION { { SubSeq(p, 1, n) : n \in 1..(Len(p) - 1) } : p \in DOMAIN fs \cup tree.files }
  /\ pc = IF legacy.orchestration = "migrateToNext" THEN "legacyLayout" ELSE "cleanup"
  /\ run = 1
  /\ log = << >>
  /\ prev = fs
  /\ record = << >>
  /\ located = [called |-> FALSE, path |-> NoPath]
  /\ ret = << >>

NextOrchestration ==
  \/ runMigration_cleanup
  \/ handleCleanup
  \/ migrateToNext_cleanup
  \/ createRootLayout
  \/ createRootLayout_indexHtml
  \/ createEntrypoint

SpecOrchestration == InitOrchestration /\ [][NextOrchestration]_vars

\* createRootLayout is the next step of the run
AtCreateRootLayout == pc \in { "layout", "legacyLayout" }

\* C13: in every orchestration, an index.html present at the start of the run is
\* still present when createRootLayout runs: cleanupViteFiles has not removed it.
C13_IndexHtmlPresentAtLayout ==
  (AtCreateRootLayout /\ legacy.atStart.status # "absent") =>
    legacy.indexHtml = legacy.atStart

----------------------------------------------------------------------------
(* Failing file-system operations *)

\* fs.writeFile(layoutFile, ...) rejects: nothing is caught, the call rejects
createRootLayout_layoutWriteFails ==
  /\ pc = "layout"
  /\ ~existsSync(fs, LayoutFile(setup))
  /\ dirs' = EnsureDir(EnsureDir(dirs, <<S_src>>), AppDir(setup))
  /\ pc' = "failed"
  /\ UNCHANGED <<setup, tree, fs, run, log, prev, legacy, record, located, ret>>

\* fs.writeFile(globalDtsPath, ...) rejects inside createTypeDeclarations: its catch
\* block warns, createRootLayout goes on and returns true
createRootLayout_typesWriteFails ==
  /\ pc = "layout"
  /\ \E globalCssPath \in findGlobalCss(tree) :
       LET ws == RootLayoutWrites(setup, tree, fs, globalCssPath)
       IN  /\ Len(ws) = 2
           /\ fs' = WriteAll(fs, SubSeq(ws, 1, 1))
           /\ log' = log \o PathsOf(SubSeq(ws, 1, 1))
  /\ dirs' = RootLayoutDirs(setup, fs, dirs)
  /\ ret' = Append(ret, TRUE)
  /\ pc' = "entry"
  /\ UNCHANGED <<setup, tree, run, prev, legacy, record, located>>

\* one fs.writeFile of createEntrypoint rejects after k writes succeeded: nothing
\* is caught, the call rejects
createEntrypoint_writeFails ==
  /\ pc = "entry"
  /\ \E found \in findAppComponent(tree) :
       LET ws == EntrypointWrites(setup, tree, fs, found)
       IN  \E k \in 0..(Len(ws) - 1) :
             /\ fs' = WriteAll(fs, SubSeq(ws, 1, k))
             /\ log' = log \o PathsOf(SubSeq(ws, 1, k))
             /\ located' = [called |-> TRUE, path |-> found]
  /\ dirs' = EntrypointDirs(setup, dirs)
  /\ pc' = "failed"
  /\ UNCHANGED <<setup, tree, run, prev, legacy, record, ret>>

\* fs.readdir(pagesDir) rejects inside createCatchAllPage
createEntrypoint_readdirFails ==
  /\ createEntrypoint
  /\ setup.usesReactRouter
  /\ CallsFindAppComponent(setup, fs)
  /\ tree.pages.exists
  /\ ~tree.pages.readable

InitIo ==
  InitWith([usesTypeScript : BOOLEAN, usesReactRouter : BOOLEAN,
            customAppDir : {NoPath}, cssFramework : {"none"}],
           Trees({F_srcApp}, MaxTreeFiles, {"/"}, {NoPath},
                 {PagesAbsent, PagesUnreadable} \cup PagesListed({N_About}, 1)),
           AnyTargets)

NextIo ==
  \/ createRootLayout
  \/ createEntrypoint
  \/ createRootLayout_layoutWriteFails
  \/ createRootLayout_typesWriteFails
  \/ createEntrypoint_writeFails

SpecIo == InitIo /\ [][NextIo]_vars

\* C14: a step in which a directory read or a file write of createRootLayout,
\* createTypeDeclarations or createEntrypoint fails ends the call in failure.
C14_IoErrorsPropagate ==
  [][ (\/ createRootLayout_layoutWriteFails
       \/ createRootLayout_typesWriteFails
       \/ createEntrypoint_writeFails
       \/ createEntrypoint_readdirFails) => pc' = "failed" ]_vars

\* C14 as the code has it: a failing write of the layout, page or client-boundary
\* file ends the call in failure; a failing write of global.d.ts is caught, the
\* layout stays written and createRootLayout returns true; a failing read of
\* src/pages is caught and the catch-all page is written with the root slug only.
C14_IoErrorsPropagateOrDegrade ==
  [][ /\ (createRootLayout_layoutWriteFails \/ createEntrypoint_writeFails) => pc' = "failed"
      /\ createRootLayout_typesWriteFails =>
           /\ pc' = "entry"
           /\ ret' = Append(ret, TRUE)
           /\ existsSync(fs', LayoutFile(setup))
           /\ ~existsSync(fs', GlobalDtsFile)
      /\ createEntrypoint_readdirFails =>
           /\ pc' = "done"
           /\ ret' = Append(ret, TRUE)
           /\ fs'[SlugPageFile(setup)].staticParams = <<RootSlug>> ]_vars

C14_Witness ==
  /\ pc = "done"
  /\ setup.usesTypeScript
  /\ LayoutFile(setup) \in Range(log)
  /\ ~existsSync(fs, GlobalDtsFile)
  /\ tree.pages.exists
  /\ ~tree.pages.readable
  /\ SlugPageFile(setup) \in Range(log)
  /\ fs[SlugPageFile(setup)].staticParams = <<RootSlug>>

----------------------------------------------------------------------------
(* Existence checks and script extensions *)

\* the extensions under which a layout or page can exist
ValidExtensions == { <<"t","s","x">>, <<"j","s","x">>, <<"j","s">> }

\* a target under each of its valid extensions
LayoutVariants(st) == { Append(AppDir(st), LayoutName(x)) : x \in ValidExtensions }
RootPageVariants(st) == { Append(AppDir(st), PageName(x)) : x \in ValidExtensions }
SlugPageVariants(st) == { Append(SlugDir(st), PageName(x)) : x \in ValidExtensions }

\* target directories holding layouts and pages under any extension
AnyVariants(st) == SUBSET (LayoutVariants(st) \cup RootPageVariants(st))

InitExtensions ==
  InitWith([usesTypeScript : BOOLEAN, usesReactRouter : BOOLEAN,
            customAppDir : {NoPath}, cssFramework : {"none"}],
           Trees({F_srcApp}, MaxTreeFiles, {"/"}, {NoPath}, {PagesAbsent}),
           AnyVariants)

SpecExtensions == InitExtensions /\ [][Next]_vars

\* C15: when a layout or page exists under any of its valid script extensions as
\* the emitter starts, the emitter writes that target under no extension.
C15_ExistsUnderAnyExtension ==
  (run = 1 /\ pc = "done") =>
    \A variants \in { LayoutVariants(setup),
                       IF setup.usesReactRouter THEN SlugPageVariants(setup)
                       ELSE RootPageVariants(setup) } :
      (\E p \in variants : existsSync(prev, p)) => \A q \in variants : q \notin Range(log)

----------------------------------------------------------------------------
(* Static slugs: filtering and duplicates *)

\* file is a script file by its extension
IsScriptFile(file) ==
  LET d == LastDot(file, Len(file))
  IN  /\ d > 0
      /\ SubSeq(file, d + 1, Len(file)) \in { <<"j","s">>, <<"j","s","x">>, <<"t","s">>, <<"t","s","x">> }

\* C16: every sibling entry of staticSlugs is the lower-cased name, without its
\* extension, of a script file listed in src/pages whose name does not begin with
\* '_', and no entry is the slug 'index'.
C16_SlugFiltering ==
  CatchAllWritten =>
    LET slugs == fs[SlugPageFile(setup)].staticParams
    IN  \A i \in DOMAIN slugs :
          \/ slugs[i] = RootSlug
          \/ /\ \E k \in DOMAIN tree.pages.listing :
                   /\ IsScriptFile(tree.pages.listing[k])
                   /\ tree.pages.listing[k][1] # "_"
                   /\ slugs[i] = [slug |-> << SiblingSlug(k) >>]
             /\ slugs[i] # [slug |-> << S_index >>]

\* C17: no slug value occurs more than once in the staticSlugs written into the
\* catch-all page.
C17_SlugsDistinct ==
  CatchAllWritten =>
    LET slugs == fs[SlugPageFile(setup)].staticParams
    IN  \A i, j \in DOMAIN slugs : i # j => slugs[i] # slugs[j]

----------------------------------------------------------------------------
(* Head elements: meta rules, Open Graph duplicates, scripts *)

S_keywords == <<"k","e","y","w","o","r","d","s">>
S_robots == <<"r","o","b","o","t","s">>
S_utf8 == <<"u","t","f","-","8">>

M_author == Meta(S_author, <<>>, T_quote, <<>>)
M_charsetNamed == Meta(S_keywords, <<>>, T_b, S_utf8)
M_nameOnly == Meta(S_robots, <<>>, <<>>, <<>>)
M_ogTitleB == Meta(<<>>, S_og \o S_title, T_b, <<>>)

\* heads for the meta rules
RuleMetas ==
  { M_author, M_keywords, M_charset, M_charsetNamed, M_viewport, M_description, M_nameOnly,
    M_title, M_ogTitle }

\* heads for the Open Graph properties
OgMetas == { M_ogTitle, M_ogTitleB, M_ogImageA, M_keywords }

\* head <script> elements: external, inline, external with a body, empty
E_srcA == [src |-> T_a, body |-> << >>]
E_srcB == [src |-> T_b, body |-> T_a]
E_inlineA == [src |-> << >>, body |-> T_a]
E_inlineQ == [src |-> << >>, body |-> T_quote]
E_empty == [src |-> << >>, body |-> << >>]

HeadScripts == { E_srcA, E_srcB, E_inlineA, E_inlineQ, E_empty }

HeadDocs ==
  { [EmptyDoc EXCEPT !.metas = q] : q \in UNION { [1..k -> RuleMetas] : k \in 0..MaxMetas } }
  \cup { [EmptyDoc EXCEPT !.metas = q] : q \in UNION { [1..k -> OgMetas] : k \in 0..MaxMetas } }
  \cup { [EmptyDoc EXCEPT !.scripts = q] : q \in UNION { [1..k -> HeadScripts] : k \in 0..MaxScripts } }

InitHead ==
  /\ legacy \in [used : {TRUE}, tsconfig : BOOLEAN,
                  indexHtml : { [status |-> "ok", doc |-> d] : d \in HeadDocs }]
  /\ fs \in { << >>, [p \in {LegacyLayoutJs} |-> UserContent] }
  /\ dirs = IF fs = << >> THEN {} ELSE {LegacyAppDir}
  /\ setup = [usesTypeScript |-> legacy.tsconfig, usesReactRouter |-> FALSE,
              customAppDir |-> NoPath, cssFramework |-> "none"]
  /\ tree = [files |-> {}, imports |-> << >>, sep |-> "/", nocase |-> FALSE,
             pages |-> PagesAbsent]
  /\ pc = "legacyLayout"
  /\ run = 1
  /\ log = << >>
  /\ prev = fs
  /\ record = << >>
  /\ located = [called |-> FALSE, path |-> NoPath]
  /\ ret = << >>

SpecHead == InitHead /\ [][NextHtml]_vars

\* meta is one the loop skips: it has a charset or is named viewport or description
Skipped(meta) ==
  meta.charset # << >> \/ meta.name = S_viewport \/ meta.name = S_description

\* meta has a name and a content
Named(meta) == meta.name # << >> /\ meta.content # << >>

\* the field a named meta stands for
FieldOf(meta) ==
  IF meta.name = S_author THEN Authors(Escape(meta.content))
  ELSE Field(meta.name, Escape(meta.content))

\* C18: the record is the one the head without its charset, viewport and
\* description metas gives, and its lines after title and description that stem
\* from names are, in document order, one per other meta with a name and a
\* content: an authors entry for author, a field of the same name otherwise.
C18_MetaSkipRules ==
  Extracted =>
    LET mc == record[1].metadataContent
        metas == legacy.indexHtml.doc.metas
        kept == SelectSeq(metas, LAMBDA m : ~Skipped(m))
        named == SelectSeq(kept, Named)
        lines == SelectSeq(SubSeq(mc, 3, Len(mc)),
                           LAMBDA line : line.kind \in {"field", "authors"})
    IN  /\ mc = ProcessMetas(SubSeq(mc, 1, 2), kept)
        /\ lines = [i \in 1..Len(named) |-> FieldOf(named[i])]

C18_Witness ==
  /\ Extracted
  /\ legacy.indexHtml.doc.metas = << M_charsetNamed, M_author, M_viewport >>
  /\ Len(record[1].metadataContent) = 3
  /\ record[1].metadataContent[3].kind = "authors"

\* the og:* metas of the head that reach the Open Graph branch, in document order
OgElements ==
  SelectSeq(legacy.indexHtml.doc.metas,
            LAMBDA m : /\ ~Skipped(m)
                       /\ ~Named(m)
                       /\ m.content # << >>
                       /\ startsWith(m.property, S_og))

\* C19: all og:* properties are in one openGraph map, and each og:* key other than
\* og:image has exactly one entry there, holding the content of its first
\* occurrence in the head.
C19_FirstOgOccurrenceWins ==
  (Extracted /\ OgElements # << >>) =>
    LET mc == record[1].metadataContent
        og == SelectSeq(mc, LAMBDA line : line.kind = "openGraph")
    IN  /\ Len(og) = 1
        /\ \A i \in DOMAIN OgElements :
             LET key == substring(OgElements[i].property, 3)
                 first == CHOOSE j \in DOMAIN OgElements :
                            /\ OgElements[j].property = OgElements[i].property
                            /\ \A k \in 1..(j - 1) :
                                 OgElements[k].property # OgElements[i].property
             IN  key # S_image =>
                   /\ Count(og[1].props, LAMBDA p : p.key = key) = 1
                   /\ \A n \in DOMAIN og[1].props :
                        og[1].props[n].key = key =>
                          og[1].props[n].items = << Escape(OgElements[first].content) >>

\* the head <script> elements that have a src or a body, in document order
DeclaredScripts ==
  SelectSeq(legacy.indexHtml.doc.scripts, LAMBDA e : e.src # << >> \/ e.body # << >>)

\* C20: the script declarations of the layout are, in document order, one per head
\* <script> with a src or a non-empty body: an external declaration with that src
\* for an element with src, else an inline one with the element's text and a
\* generated identifier.
C20_ScriptsInDocumentOrder ==
  Extracted =>
    LET scripts == record[1].scripts
        file == <<S_app, LayoutName(Extension(legacy.tsconfig))>>
    IN  /\ fs[file].scripts = scripts
        /\ Len(scripts) = Len(DeclaredScripts)
        /\ \A i \in DOMAIN scripts :
             IF DeclaredScripts[i].src # << >>
             THEN scripts[i] = [src |-> DeclaredScripts[i].src, id |-> "", body |-> << >>]
             ELSE /\ scripts[i].src = << >>
                  /\ scripts[i].body = DeclaredScripts[i].body
                  /\ scripts[i].id \in ScriptIds

C20_Witness ==
  /\ Extracted
  /\ legacy.indexHtml.doc.scripts = << E_inlineQ, E_empty, E_srcB >>
  /\ Len(record[1].scripts) = 2
  /\ record[1].scripts[2].src = T_b

----------------------------------------------------------------------------
(* The metadata record in the layout file *)

\* C21: when index.html was parsed and the layout written from it, the layout file
\* holds every line of the extracted metadata record, with usesTypeScript true and
\* false alike.
C21_MetadataInLayout ==
  Extracted =>
    LET file == <<S_app, LayoutName(Extension(legacy.tsconfig))>>
    IN  fs[file].metadata = record[1].metadataContent

----------------------------------------------------------------------------
(* createEntrypoint step by step: reads and writes in the order of the code *)

\* the two writes of createCatchAllPage in write order, page first
CatchAllWrites_PageFirst(st, t, found) ==
  << [path |-> SlugPageFile(st),
      content |-> [kind |-> "catchAllPage", import |-> S_client,
                   staticParams |-> StaticSlugs(t.pages)]],
     [path |-> SlugClientFile(st),
      content |-> [kind |-> "client", import |-> CatchAllImport(found)]] >>

\* the two writes of createCatchAllPage in the order of lines 187 and 226
CatchAllWrites(st, t, found) ==
  << [path |-> SlugClientFile(st),
      content |-> [kind |-> "client", import |-> CatchAllImport(found)]],
     [path |-> SlugPageFile(st),
      content |-> [kind |-> "catchAllPage", import |-> S_client,
                   staticParams |-> StaticSlugs(t.pages)]] >>

\* createEntrypoint up to its first write: directories, existence checks and the
\* component lookup
createEntrypoint_locate ==
  /\ pc = "entry"
  /\ dirs' = EntrypointDirs(setup, dirs)
  /\ IF CallsFindAppComponent(setup, fs)
     THEN /\ \E found \in findAppComponent(tree) : located' = [called |-> TRUE, path |-> found]
          /\ pc' = IF setup.usesReactRouter THEN "writeClient" ELSE "writePage"
          /\ ret' = ret
     ELSE /\ located' = [called |-> FALSE, path |-> NoPath]
          /\ pc' = "done"
          /\ ret' = Append(ret, TRUE)
  /\ UNCHANGED <<setup, tree, fs, run, log, prev, legacy, record>>

\* fs.writeFile(clientFile, clientContent), line 187
createCatchAllPage_writeClient ==
  /\ pc = "writeClient"
  /\ LET w == CatchAllWrites(setup, tree, located.path)[1]
     IN  /\ fs' = WriteAll(fs, <<w>>)
         /\ log' = Append(log, w.path)
  /\ pc' = "readdir"
  /\ UNCHANGED <<setup, tree, dirs, run, prev, legacy, record, located, ret>>

\* the listing of src/pages is read, lines 190-213 (a failure is caught)
createCatchAllPage_readdir ==
  /\ pc = "readdir"
  /\ pc' = "writeCatchAllPage"
  /\ UNCHANGED <<setup, tree, fs, dirs, run, log, prev, legacy, record, located, ret>>

\* fs.writeFile(pageFile, pageContent), line 226
createCatchAllPage_writePage ==
  /\ pc = "writeCatchAllPage"
  /\ LET w == CatchAllWrites(setup, tree, located.path)[2]
     IN  /\ fs' = WriteAll(fs, <<w>>)
         /\ log' = Append(log, w.path)
  /\ ret' = Append(ret, TRUE)
  /\ pc' = "done"
  /\ UNCHANGED <<setup, tree, dirs, run, prev, legacy, record, located>>

\* createDirectPage or createFallbackPage writes the root page
createEntrypoint_writeRootPage ==
  /\ pc = "writePage"
  /\ LET ws == EntrypointWrites(setup, tree, fs, located.path)
     IN  /\ fs' = WriteAll(fs, ws)
         /\ log' = log \o PathsOf(ws)
  /\ ret' = Append(ret, TRUE)
  /\ pc' = "done"
  /\ UNCHANGED <<setup, tree, dirs, run, prev, legacy, record, located>>

\* a fs.writeFile of createCatchAllPage rejects: the call rejects, nothing is undone
createCatchAllPage_writeFails ==
  /\ pc \in { "writeClient", "writeCatchAllPage" }
  /\ pc' = "failed"
  /\ UNCHANGED <<setup, tree, fs, dirs, run, log, prev, legacy, record, located, ret>>

\* targets present at the start: any but the two catch-all files
NoCatchAllTargets(st) == SUBSET { LayoutFile(st), RootPageFile(st), GlobalDtsFile }

InitSteps ==
  InitWith([usesTypeScript : BOOLEAN, usesReactRouter : BOOLEAN,
            customAppDir : {NoPath}, cssFramework : {"none"}],
           Trees({F_srcApp}, MaxTreeFiles, {"/"}, {NoPath},
                 {PagesAbsent, PagesUnreadable} \cup PagesListed({N_About}, 1)),
           NoCatchAllTargets)

NextSteps ==
  \/ createRootLayout
  \/ createEntrypoint_locate
  \/ createCatchAllPage_writeClient
  \/ createCatchAllPage_readdir
  \/ createCatchAllPage_writePage
  \/ createEntrypoint_writeRootPage
  \/ createCatchAllPage_writeFails

SpecSteps == InitSteps /\ [][NextSteps]_vars

\* createEntrypoint has written one of its files in this run
EntrypointHasWritten ==
  \E p \in { SlugClientFile(setup), SlugPageFile(setup), RootPageFile(setup) } : p \in Range(log)

\* C22: every read of the source tree that the emitted page and client-boundary
\* file depend on (component lookup, src/pages listing) is done before the first
\* of these files is written.
C22_ReadsBeforeWrites ==
  [][ (createEntrypoint_locate \/ createCatchAllPage_readdir) => ~EntrypointHasWritten ]_vars

----------------------------------------------------------------------------
(* The type-declaration file *)

\* C23: src/types/global.d.ts is written only with usesTypeScript true and only
\* when it did not exist; a type-declaration file that existed when the run began
\* keeps its content, and with usesTypeScript false none is created.
C23_TypeDeclarationsOnlyOnce ==
  /\ GlobalDtsFile \in Range(log) =>
       /\ setup.usesTypeScript
       /\ ~existsSync(prev, GlobalDtsFile)
       /\ fs[GlobalDtsFile] = [kind |-> "globalDts"]
  /\ existsSync(prev, GlobalDtsFile) =>
       /\ existsSync(fs, GlobalDtsFile)
       /\ fs[GlobalDtsFile] = prev[GlobalDtsFile]
  /\ (~setup.usesTypeScript /\ ~existsSync(prev, GlobalDtsFile)) => ~existsSync(fs, GlobalDtsFile)

C23_Witness ==
  /\ pc = "done"
  /\ run = 1
  /\ GlobalDtsFile \in Range(log)
  /\ existsSync(prev, RootPageFile(setup))

----------------------------------------------------------------------------
(* Artifact locators: priority, exclusions, letter case *)

S_packages == <<"p","a","c","k","a","g","e","s">>

F_nestedModulesApp == <<S_packages, S_nodeModules, S_App \o X_js>>
F_topModulesApp == <<S_nodeModules, S_App \o X_js>>
F_nestedDistCss == <<S_packages, S_dist, S_index \o S_css>>
F_topDistCss == <<S_dist, S_index \o S_css>>
F_srcAppTs == <<S_src, S_App \o X_ts>>
F_srcAPPTsx == <<S_src, <<"A","P","P">> \o X_tsx>>
F_srcIndexTsx == <<S_src, S_index \o X_tsx>>

\* the entry script m holds an import that the regular expression of line 83 captures
HasAppImport(t, m) == t.imports[m] # Unreadable /\ t.imports[m] # NoPath

\* the runs of the second loop of findAppComponent from position i of
\* mainFilePatterns on: the value returned and the entry scripts read, in order
RECURSIVE MainFileRuns(_, _, _)
MainFileRuns(t, i, reads) ==
  IF i > Len(mainFilePatterns) THEN { [path |-> NoPath, reads |-> reads] }
  ELSE LET files == Glob(t, mainFilePatterns[i])
       IN  IF files = {} THEN MainFileRuns(t, i + 1, reads)
           ELSE UNION { IF HasAppImport(t, m)
                        THEN { [path |-> ImportedApp(t, m), reads |-> Append(reads, m)] }
                        ELSE MainFileRuns(t, i + 1, Append(reads, m)) : m \in files }

\* the runs of findAppComponent: no file is read when a candidate name matches
AppComponentRuns(t) ==
  IF \E i \in DOMAIN appFilePatterns : Glob(t, appFilePatterns[i]) # {}
  THEN { [path |-> r, reads |-> << >>] : r \in findAppComponent(t) }
  ELSE MainFileRuns(t, 1, << >>)

\* findAppComponent(targetDir) is called; record keeps the entry scripts it read
findAppComponent_call ==
  /\ pc = "locate"
  /\ \E r \in AppComponentRuns(tree) :
       /\ located' = [called |-> TRUE, path |-> r.path]
       /\ record' = r.reads
       /\ ret' = Append(ret, r.path)
  /\ pc' = "locateCss"
  /\ UNCHANGED <<setup, tree, fs, dirs, run, log, prev, legacy>>

\* findGlobalCss(targetDir) is called
findGlobalCss_call ==
  /\ pc = "locateCss"
  /\ \E globalCssPath \in findGlobalCss(tree) : ret' = Append(ret, globalCssPath)
  /\ pc' = "located"
  /\ UNCHANGED <<setup, tree, fs, dirs, run, log, prev, legacy, record, located>>

LocatorFiles ==
  { F_srcApp, F_rootApp, F_srcAppTs, F_srcAPPTsx, F_nestedModulesApp, F_topModulesApp,
    F_srcMain, F_rootMain, F_srcIndexTsx, F_srcIndexCss, F_nestedDistCss, F_topDistCss }

InitLocators ==
  /\ setup \in [usesTypeScript : {TRUE}, usesReactRouter : {FALSE},
                 customAppDir : {NoPath}, cssFramework : {"none"}]
  /\ tree \in TreesOn(LocatorFiles, MaxTreeFiles, {Linux, MacOS, Windows},
                       {NoPath, Unreadable, S_here \o S_App}, {PagesAbsent})
  /\ fs = << >>
  /\ dirs = UNION { { SubSeq(p, 1, n) : n \in 1..(Len(p) - 1) } : p \in tree.files }
  /\ pc = "locate"
  /\ run = 1
  /\ log = << >>
  /\ prev = fs
  /\ legacy = [used |-> FALSE]
  /\ record = << >>
  /\ located = [called |-> FALSE, path |-> NoPath]
  /\ ret = << >>

NextLocators == findAppComponent_call \/ findGlobalCss_call

SpecLocators == InitLocators /\ [][NextLocators]_vars

\* the positions of patterns that have a match in the tree
Matching(patterns) == { i \in DOMAIN patterns : Glob(tree, patterns[i]) # {} }

\* the position in mainFilePatterns of the pattern that entry script m matches
PatternOf(m) ==
  CHOOSE i \in DOMAIN mainFilePatterns :
    /\ m \in Glob(tree, mainFilePatterns[i])
    /\ \A j \in 1..(i - 1) : m \notin Glob(tree, mainFilePatterns[j])

\* C24: findAppComponent returns a match of the earliest candidate name that has a
\* match and then reads no file; without any match it reads entry scripts in
\* priority order, one per entry-script name that has a match, and stops at the
\* first that holds an import of the root component, which gives the result; it
\* returns null when none does.
C24_LocatorPriority ==
  located.called =>
    LET direct == Matching(appFilePatterns)
        reads == record
    IN  IF direct # {}
        THEN /\ reads = << >>
             /\ \E p \in Glob(tree, appFilePatterns[CHOOSE i \in direct : \A j \in direct : i <= j]) :
                  located.path = Join(p, tree.sep)
        ELSE /\ \A k \in DOMAIN reads : reads[k] \in MainIn(tree.files)
             /\ \A k \in 1..(Len(reads) - 1) :
                  /\ ~HasAppImport(tree, reads[k])
                  /\ PatternOf(reads[k]) < PatternOf(reads[k + 1])
             /\ \A i \in Matching(mainFilePatterns) :
                  (reads = << >> \/ i <= PatternOf(reads[Len(reads)])
                   \/ ~HasAppImport(tree, reads[Len(reads)]))
                    => \E k \in DOMAIN reads : PatternOf(reads[k]) = i
             /\ IF reads # << >> /\ HasAppImport(tree, reads[Len(reads)])
                THEN located.path = ImportedApp(tree, reads[Len(reads)])
                ELSE located.path = NoPath

C24_Witness ==
  /\ located.called
  /\ tree.files = { F_srcIndexTsx, F_srcMain }
  /\ record = << F_srcMain, F_srcIndexTsx >>
  /\ located.path # NoPath

\* the directory names the locators are to leave out
ExcludedNames == { S_nodeModules, S_git, S_dist, S_next }

\* C25: the path findAppComponent returns and the path findGlobalCss returns have
\* no segment named node_modules, .git, dist or .next, at any depth.
C25_LocatorExclusions ==
  /\ located.called =>
       \A s \in Range(SplitOn(located.path, {"/", "\\"})) : s \notin ExcludedNames
  /\ Len(ret) = 2 => \A s \in Range(ret[2]) : s \notin ExcludedNames

\* the names a root-component file can have: 'app' in any letter case with a script
\* extension
IsAppFileName(name) ==
  toLowerCase(name) \in { S_app \o X_ts, S_app \o X_tsx, S_app \o X_js, S_app \o X_jsx }

\* C26: a tree whose only file is a root component named 'app' in any letter case
\* with any script extension, outside the excluded directories, has that file
\* returned by findAppComponent.
C26_AnyCaseCandidate ==
  (located.called /\ Cardinality(tree.files) = 1) =>
    \A f \in tree.files :
      (IsAppFileName(Basename(f)) /\ \A s \in Range(f) : s \notin ExcludedNames)
        => located.path = Join(f, tree.sep)

----------------------------------------------------------------------------
(* The fallback import *)

\* C27: when no component is located, the import written as the fallback is
\* forward-slash separated, starts with './' or '../' and has no script extension.
C27_FallbackImportIsImportPath ==
  (run = 1 /\ pc = "done" /\ located.called /\ located.path = NoPath) =>
    \A i \in DOMAIN log :
      fs[log[i]].kind \in {"client", "directPage"} =>
        LET imp == fs[log[i]].import
        IN  /\ startsWith(imp, S_here) \/ startsWith(imp, S_up)
            /\ \A k \in DOMAIN imp : imp[k] # "\\"
            /\ \A e \in { X_js, X_jsx, X_ts, X_tsx } : ~endsWith(imp, e)

----------------------------------------------------------------------------
(* The catch-all pair *)

\* C28: from a target without catch-all files, in every state during
\* createCatchAllPage and after a failure of either write, the catch-all page
\* exists only if the client-boundary file exists; after a normal return both exist.
C28_PageOnlyWithClient ==
  /\ existsSync(fs, SlugPageFile(setup)) => existsSync(fs, SlugClientFile(setup))
  /\ (pc = "done" /\ setup.usesReactRouter) =>
       /\ existsSync(fs, SlugPageFile(setup))
       /\ existsSync(fs, SlugClientFile(setup))
       /\ fs[SlugPageFile(setup)].import = S_client

C28_Witness ==
  /\ pc = "failed"
  /\ existsSync(fs, SlugClientFile(setup))
  /\ ~existsSync(fs, SlugPageFile(setup))

----------------------------------------------------------------------------
(* migrateEnvVars: the rewrite of the .env files *)

MaxEnvChunks == 3

T_vite == <<"V","I","T","E","_">>
T_nextPublic == <<"N","E","X","T","_","P","U","B","L","I","C","_">>
T_baseUrl == <<"B","A","S","E","_","U","R","L","=">>
T_basePath == T_nextPublic \o <<"B","A","S","E","_","P","A","T","H","=">>
T_newline == <<"\n">>
T_value == <<"/","x">>
T_added == <<"#"," ","A","d","d","e","d"," ","b","y"," ","v","i","t","e","-","t","o","-",
             "n","e","x","t"," ","m","i","g","r","a","t","i","o","n">>

F_env == <<".","e","n","v">>
F_envLocal == <<".","e","n","v",".","l","o","c","a","l">>

\* String.prototype.includes
includes(s, sub) == \E i \in 1..(Len(s) - Len(sub) + 1) : SubSeq(s, i, i + Len(sub) - 1) = sub

\* the positions at which sub occurs in s
Occurrences(s, sub) ==
  { i \in 1..(Len(s) - Len(sub) + 1) : SubSeq(s, i, i + Len(sub) - 1) = sub }

Least(S) == CHOOSE i \in S : \A j \in S : i <= j

\* String.prototype.replace with a global pattern without metacharacters:
\* leftmost matches, not overlapping, the replacement is not scanned again
RECURSIVE replaceAll(_, _, _)
replaceAll(s, pattern, replacement) ==
  IF Occurrences(s, pattern) = {} THEN s
  ELSE LET i == Least(Occurrences(s, pattern))
       IN  SubSeq(s, 1, i - 1) \o replacement
             \o replaceAll(substring(s, i - 1 + Len(pattern)), pattern, replacement)

\* the longest prefix of s without a line feed: what ([^\n]+) captures
UpToNewline(s) ==
  IF Occurrences(s, T_newline) = {} THEN s
  ELSE SubSeq(s, 1, Least(Occurrences(s, T_newline)) - 1)

\* envContent.match(/BASE_URL=([^\n]+)/): group 1 of the leftmost match,
\* <<>> when there is no match
baseUrlMatch(s) ==
  LET after(i) == substring(s, i - 1 + Len(T_baseUrl))
      matches == { i \in Occurrences(s, T_baseUrl) : UpToNewline(after(i)) # <<>> }
  IN  IF matches = {} THEN <<>> ELSE UpToNewline(after(Least(matches)))

\* the text appendFile adds for the base URL baseUrl
AppendedText(baseUrl) ==
  T_newline \o T_added \o T_newline \o T_basePath \o baseUrl \o T_newline

\* the body of the loop over envFiles: the file operations for one file, in order
EnvFileOps(envFile, envContent) ==
  LET updatedContent == replaceAll(envContent, T_vite, T_nextPublic)
      written == IF updatedContent # envContent
                 THEN << [op |-> "writeFile", path |-> envFile, data |-> updatedContent] >>
                 ELSE << >>
      appended == IF /\ includes(envContent, T_baseUrl)
                     /\ ~includes(envContent, T_basePath)
                     /\ baseUrlMatch(envContent) # <<>>
                  THEN << [op |-> "appendFile", path |-> envFile,
                           data |-> AppendedText(baseUrlMatch(envContent))] >>
                  ELSE << >>
  IN  written \o appended

RECURSIVE ApplyEnvOps(_, _)
ApplyEnvOps(content, ops) ==
  IF ops = <<>> THEN content
  ELSE ApplyEnvOps(IF Head(ops).op = "writeFile" THEN Head(ops).data
                   ELSE content \o Head(ops).data,
                   Tail(ops))

\* the files glob('.env*') returns, in one order
RECURSIVE EnvFilesInOrder(_)
EnvFilesInOrder(files) ==
  IF files = {} THEN <<>>
  ELSE LET f == CHOOSE x \in files : \A y \in files : Len(x) <= Len(y)
       IN  <<f>> \o EnvFilesInOrder(files \ {f})

RECURSIVE EnvOpsOfAll(_, _)
EnvOpsOfAll(f, envFiles) ==
  IF envFiles = <<>> THEN <<>>
  ELSE EnvFileOps(Head(envFiles), f[Head(envFiles)]) \o EnvOpsOfAll(f, Tail(envFiles))

\* migrateEnvVars over the .env files of the target directory
migrateEnvVars ==
  /\ pc = "env"
  /\ LET ops == EnvOpsOfAll(fs, EnvFilesInOrder(DOMAIN fs))
     IN  /\ fs' = [p \in DOMAIN fs |->
                     ApplyEnvOps(fs[p], SelectSeq(ops, LAMBDA o : o.path = p))]
         /\ log' = log \o ops
  /\ pc' = "done"
  /\ ret' = Append(ret, TRUE)
  /\ UNCHANGED <<setup, tree, dirs, run, prev, legacy, record, located>>

\* the tool is started again on the same directory
migrateEnvVars_again ==
  /\ pc = "done"
  /\ run < MaxRuns
  /\ run' = run + 1
  /\ prev' = fs
  /\ log' = << >>
  /\ ret' = << >>
  /\ pc' = "env"
  /\ UNCHANGED <<setup, tree, fs, dirs, legacy, record, located>>

EnvChunks == { T_vite, T_baseUrl, T_basePath, T_newline, T_value }

RECURSIVE EnvContents(_)
EnvContents(n) ==
  IF n = 0 THEN { <<>> }
  ELSE EnvContents(n - 1) \cup { c \o k : c \in EnvContents(n - 1), k \in EnvChunks }

InitEnv ==
  /\ setup = [usesTypeScript |-> TRUE, usesReactRouter |-> FALSE,
               customAppDir |-> NoPath, cssFramework |-> "none"]
  /\ tree = [files |-> {}, imports |-> << >>, sep |-> "/", nocase |-> FALSE, pages |-> PagesAbsent]
  /\ fs \in { << >> } \cup [ {F_env} -> EnvContents(MaxEnvChunks) ]
                      \cup [ {F_env, F_envLocal} -> EnvContents(1) ]
  /\ dirs = {}
  /\ pc = "env"
  /\ run = 1
  /\ log = << >>
  /\ prev = fs
  /\ legacy = [used |-> FALSE]
  /\ record = << >>
  /\ located = [called |-> FALSE, path |-> NoPath]
  /\ ret = << >>

NextEnv == migrateEnvVars \/ migrateEnvVars_again

SpecEnv == InitEnv /\ [][NextEnv]_vars

\* C30: a second application of migrateEnvVars leaves every .env file as the
\* first application left it and performs no write and no append.
C30_EnvRewriteIdempotent ==
  (pc = "done" /\ run = 2) => (fs = prev /\ log = << >>)

----------------------------------------------------------------------------
(* The step sequences of runMigration and migrateToNext *)

\* the awaited calls of the try block, in program order
StepsOf(orchestration, st, options) ==
  IF orchestration = "runMigration"
  THEN <<"cleanupViteFiles", "migrateDependencies", "createNextConfig">>
         \o (IF st.usesTypeScript THEN <<"updateTsConfig">> ELSE << >>)
         \o <<"createRootLayout", "createEntrypoint", "updateImageImports",
              "migrateEnvVars", "updatePackageJson">>
         \o (IF st.usesReactRouter THEN <<"migrateReactRouter">> ELSE << >>)
         \o <<"migrateStaticAssets">>
  ELSE <<"migrateDependencies", "createNextConfig", "updateTsConfig", "createRootLayout",
         "createEntrypoint", "updateImageImports", "migrateEnvVars", "updatePackageJson">>
         \o (IF ~options.skipCleanup THEN <<"cleanupViteFiles">> ELSE << >>)
         \o <<"migrateReactRouter", "migrateStaticAssets">>

\* variant: the catch block logs the error and the run goes on
Caught_Swallowed(orchestration) == "await"

\* the catch block: process.exit(1) in the CLI, throw error in the API
Caught(orchestration) ==
  IF orchestration = "runMigration" THEN "exit1" ELSE "rethrown"

Plan == StepsOf(legacy.orchestration, setup, legacy)

\* the next awaited call starts
step_call ==
  /\ pc = "await"
  /\ Len(ret) < Len(Plan)
  /\ log' = Append(log, Plan[Len(ret) + 1])
  /\ pc' = "step"
  /\ UNCHANGED <<setup, tree, fs, dirs, run, prev, legacy, record, located, ret>>

\* the awaited promise resolves
step_resolves ==
  /\ pc = "step"
  /\ ret' = Append(ret, log[Len(log)])
  /\ pc' = "await"
  /\ UNCHANGED <<setup, tree, fs, dirs, run, log, prev, legacy, record, located>>

\* the awaited promise rejects: control passes to the catch block
step_rejects ==
  /\ pc = "step"
  /\ record' = <<log[Len(log)]>>
  /\ pc' = Caught(legacy.orchestration)
  /\ UNCHANGED <<setup, tree, fs, dirs, run, log, prev, legacy, located, ret>>

\* after the last step: displayCompletionMessage, or return true
reportCompletion ==
  /\ pc = "await"
  /\ Len(ret) = Len(Plan)
  /\ pc' = "completed"
  /\ UNCHANGED <<setup, tree, fs, dirs, run, log, prev, legacy, record, located, ret>>

InitSequence ==
  /\ setup \in [usesTypeScript : BOOLEAN, usesReactRouter : BOOLEAN,
                 customAppDir : {NoPath}, cssFramework : {"none"}]
  /\ tree = [files |-> {}, imports |-> << >>, sep |-> "/", nocase |-> FALSE, pages |-> PagesAbsent]
  /\ fs = << >>
  /\ dirs = {}
  /\ pc = "await"
  /\ run = 1
  /\ log = << >>
  /\ prev = fs
  /\ legacy \in [used : {FALSE}, orchestration : {"runMigration", "migrateToNext"},
                  skipCleanup : BOOLEAN]
  /\ record = << >>
  /\ located = [called |-> FALSE, path |-> NoPath]
  /\ ret = << >>

NextSequence == step_call \/ step_resolves \/ step_rejects \/ reportCompletion

SpecSequence == InitSequence /\ [][NextSequence]_vars

IsPrefix(a, b) == Len(a) <= Len(b) /\ SubSeq(b, 1, Len(a)) = a

\* C29: the steps are started in their fixed order, one at a time and each after
\* the previous one has completed; when a step raises, no later step is started
\* and the run ends with exit code 1 (runMigration) or the rethrown error
\* (migrateToNext); completion is reported only after every step has completed.
C29_SequentialFailOutright ==
  /\ IsPrefix(log, Plan)
  /\ IsPrefix(ret, log)
  /\ Len(log) <= Len(ret) + 1
  /\ pc = "await" => (log = ret /\ record = << >>)
  /\ pc = "step" => (Len(log) = Len(ret) + 1 /\ record = << >>)
  /\ pc = "completed" => (ret = Plan /\ record = << >>)
  /\ record # << >> =>
       /\ pc = (IF legacy.orchestration = "runMigration" THEN "exit1" ELSE "rethrown")
       /\ log = ret \o record
  /\ pc \in {"exit1", "rethrown"} => record # << >>

C29_Witness ==
  /\ pc = "exit1"
  /\ record = <<"createEntrypoint">>
  /\ Len(ret) >= 1
  /\ Len(log) < Len(Plan)

====
